---- MODULE Spec2Model ----
(***************************************************************************)
(* Model of native/oneapi/lc0j_oneapi_jni.cpp: the LC0J ".bin" loader      *)
(* (create_net and its load_* helpers), the device heap behind sycl_alloc  *)
(* and sycl_free, destroy_net, eval_one and the JNI entry points.          *)
(*                                                                         *)
(* A model file is a stream of items (one item per read_i32 / read_u8 /    *)
(* read_bytes call of the parser); `avail` is the number of items the      *)
(* stream holds, so a short stream is a truncated file and a longer one a  *)
(* file with trailing bytes.  Device buffers are ids handed out by the     *)
(* heap; 0 is nullptr.  Workspace contents are tracked per 64-float plane  *)
(* (per element for the small vectors) as the set of sources the value     *)
(* depends on: an input id, Uninit (never written) or Oob (out of bounds). *)
(***************************************************************************)
EXTENDS Integers, Sequences, FiniteSets, TLC

\* ---- bounds of the model ----
MaxBlocks == 2
NumInputs == 2
\* Calls the host makes with a handle that is null or already released.
MaxAbsentCalls == 1

\* ---- program constants ----
Squares == 64
ClassicalInputC == 112
FormatVersion == 1
WdlOutputs == 3

\* size_t is 64 bits wide in the build; TLC's integers are 32 bits wide,
\* so the modulus is scaled down.  Every legitimate element count of the model
\* stays far below it, and a negative int32 converts to a value just below it.
SizeTModulus == 2 ^ 20
\* std::vector<T>::max_size(): a request above it throws std::length_error.
VectorMaxSize == SizeTModulus \div 8
\* The largest element count one device allocation can satisfy.
MaxDeviceAlloc == SizeTModulus \div 16

ToSizeT(n) == n % SizeTModulus

Max(a, b) == IF a >= b THEN a ELSE b

\* ---------------------------------------------------------------------------
\* Model files
\* ---------------------------------------------------------------------------

ConvRec(inC, outC, k) ==
    [inC |-> inC, outC |-> outC, k |-> k, wLen |-> outC * inC * k * k, bLen |-> outC]

DenseRec(inD, outD) ==
    [inD |-> inD, outD |-> outD, wLen |-> outD * inD, bLen |-> outD]

SeRec(hidden, channels) ==
    [hidden |-> hidden, channels |-> channels,
     w1Len |-> hidden * channels, b1Len |-> hidden,
     w2Len |-> 2 * channels * hidden, b2Len |-> 2 * channels]

BlockRec(trunkC, se, hidden) ==
    [conv1 |-> ConvRec(trunkC, trunkC, 3), conv2 |-> ConvRec(trunkC, trunkC, 3),
     se |-> se, seRec |-> SeRec(hidden, trunkC)]

\* Items the parser reads from a well-formed stream of this shape.
HeaderItems == 10
ConvItems == 7
DenseItems == 6
SeItems == 10

RECURSIVE TowerItems(_)
TowerItems(tower) ==
    IF tower = <<>> THEN 0
    ELSE 2 * ConvItems + 1 + (IF Head(tower).se THEN SeItems ELSE 0)
         + TowerItems(Tail(tower))

FileItems(f) ==
    HeaderItems + ConvItems + TowerItems(f.tower) + 3 * ConvItems + 2 * DenseItems + 2

NoFault == [kind |-> "none", slot |-> <<"", 0>>, fld |-> ""]

\* A well-formed file: every layer agrees with the header.
ValidFile(inputC, trunkC, seFlags) ==
    LET f == [magicOk |-> TRUE, version |-> FormatVersion,
              hdr |-> [inputC |-> inputC, trunkC |-> trunkC, blocks |-> Len(seFlags),
                       policyC |-> 1, valueC |-> 1, valueHidden |-> 2,
                       policyMapLen |-> 2, wdlOutputs |-> WdlOutputs],
              inputLayer |-> ConvRec(inputC, trunkC, 3),
              tower |-> [i \in 1..Len(seFlags) |-> BlockRec(trunkC, seFlags[i], i)],
              policyStem |-> ConvRec(trunkC, trunkC, 3),
              policyOut |-> ConvRec(trunkC, 1, 3),
              valueConv |-> ConvRec(trunkC, 1, 1),
              valueFc1 |-> DenseRec(1 * Squares, 2),
              valueFc2 |-> DenseRec(2, WdlOutputs),
              mapEntries |-> 2, map |-> <<0, -1>>,
              avail |-> 0, fault |-> NoFault]
    IN [f EXCEPT !.avail = FileItems(f)]

InputCs == {1, ClassicalInputC}
TrunkCs == {2}

SeFlagSeqs == UNION {[1..n -> BOOLEAN] : n \in 0..MaxBlocks}

ValidFiles ==
    {ValidFile(ic, tc, se) : ic \in InputCs, tc \in TrunkCs, se \in SeFlagSeqs}

\* ---- slots of a file ----
ConvSlots(f) ==
    {<<"inputLayer", 0>>, <<"policyStem", 0>>, <<"policyOut", 0>>, <<"valueConv", 0>>}
    \cup {<<c, i>> : c \in {"conv1", "conv2"}, i \in 1..Len(f.tower)}

DenseSlots == {<<"valueFc1", 0>>, <<"valueFc2", 0>>}

SeSlots(f) == {<<"se", i>> : i \in {j \in 1..Len(f.tower) : f.tower[j].se}}

GetRec(f, slot) ==
    CASE slot[1] = "conv1" -> f.tower[slot[2]].conv1
      [] slot[1] = "conv2" -> f.tower[slot[2]].conv2
      [] slot[1] = "se" -> f.tower[slot[2]].seRec
      [] OTHER -> f[slot[1]]

SetRec(f, slot, r) ==
    CASE slot[1] = "conv1" -> [f EXCEPT !.tower[slot[2]].conv1 = r]
      [] slot[1] = "conv2" -> [f EXCEPT !.tower[slot[2]].conv2 = r]
      [] slot[1] = "se" -> [f EXCEPT !.tower[slot[2]].seRec = r]
      [] OTHER -> [f EXCEPT ![slot[1]] = r]

\* The length field of array `arr` of the record in `slot`.
LenField(arr) == CASE arr = "w" -> "wLen" [] arr = "b" -> "bLen"
                   [] arr = "w1" -> "w1Len" [] arr = "b1" -> "b1Len"
                   [] arr = "w2" -> "w2Len" [] arr = "b2" -> "b2Len"

SetLen(f, slot, arr, n) ==
    SetRec(f, slot, [GetRec(f, slot) EXCEPT ![LenField(arr)] = n])

\* A conv / dense record with one dimension changed and arrays of the matching size.
Redim(r, fld, v) ==
    CASE fld = "inC" -> ConvRec(v, r.outC, r.k)
      [] fld = "outC" -> ConvRec(r.inC, v, r.k)
      [] fld = "inD" -> DenseRec(v, r.outD)
      [] fld = "outD" -> DenseRec(r.inD, v)

Fault(kind, slot, fld) == [kind |-> kind, slot |-> slot, fld |-> fld]

HeaderFields ==
    {"inputC", "trunkC", "blocks", "policyC", "valueC", "valueHidden", "policyMapLen"}

\* ---- the ways a file departs from a well-formed one (one departure per file) ----
Variants(f) ==
    LET n == FileItems(f)
        convs == ConvSlots(f)
        ses == SeSlots(f)
        W(g, kind, slot, fld) == [g EXCEPT !.fault = Fault(kind, slot, fld)]
    IN  {f}
        \cup {W([f EXCEPT !.avail = a], "truncated", <<"", a>>, "") : a \in 0..(n - 1)}
        \cup {W([f EXCEPT !.avail = n + 1], "trailing", <<"", 0>>, "")}
        \cup {W([f EXCEPT !.magicOk = FALSE], "magic", <<"", 0>>, "")}
        \cup {W([f EXCEPT !.version = 2], "version", <<"", 0>>, "")}
        \cup {W([f EXCEPT !.hdr.wdlOutputs = 4], "wdlOutputs", <<"", 0>>, "")}
        \cup {W(SetLen(f, s, a, -1), "negLen", s, a) :
                s \in convs \cup DenseSlots, a \in {"w", "b"}}
        \cup {W(SetLen(f, s, a, -1), "negLen", s, a) :
                s \in ses, a \in {"w1", "b1", "w2", "b2"}}
        \cup {W(SetLen(f, s, a, GetRec(f, s)[LenField(a)] + 1), "lenMismatch", s, a) :
                s \in convs \cup DenseSlots, a \in {"w", "b"}}
        \cup {W(SetRec(f, s, [GetRec(f, s) EXCEPT !.k = 2]), "kernel", s, "k") : s \in convs}
        \cup {W(SetRec(f, s, [GetRec(f, s) EXCEPT !.inC = 0]), "dimNonPos", s, "inC") :
                s \in convs}
        \cup {W([f EXCEPT !.hdr.policyC = @ + 1], "policyC", <<"", 0>>, "")}
        \cup {W([f EXCEPT !.hdr.valueC = @ + 1], "valueC", <<"", 0>>, "")}
        \cup {W([f EXCEPT !.hdr.valueHidden = @ + 1], "valueHidden", <<"", 0>>, "")}
        \cup {W([f EXCEPT !.valueFc2 = DenseRec(@.inD, 2)], "fc2Out", <<"", 0>>, "")}
        \cup {W(SetRec(f, s, [GetRec(f, s) EXCEPT !.channels = @ + 1]), "seChannels", s, "") :
                s \in ses}
        \cup {W([f EXCEPT !.mapEntries = 3, !.map = <<0, -1, 0>>], "mapEntries", <<"", 0>>, "")}
        \* negative sizes
        \cup {W([f EXCEPT !.hdr[h] = -1,
                          !.mapEntries = IF h = "policyMapLen" THEN -1 ELSE @],
                "negHeader", <<"", 0>>, h) : h \in HeaderFields}
        \cup {W(SetRec(f, s, [GetRec(f, s) EXCEPT !.hidden = -1]), "seHiddenNeg", s, "") :
                s \in ses}
        \* shapes the loader has no check for
        \cup {W(SetLen(f, s, a, GetRec(f, s)[LenField(a)] + 1), "seLen", s, a) :
                s \in ses, a \in {"w1", "b1", "w2", "b2"}}
        \cup {W(SetRec(f, s, Redim(GetRec(f, s), d, GetRec(f, s)[d] + delta)), "chain", s, d) :
                s \in convs, d \in {"inC", "outC"}, delta \in {-1, 1}}
        \cup {W(SetRec(f, s, Redim(GetRec(f, s), "inD", GetRec(f, s).inD + 1)), "chain", s, "inD") :
                s \in DenseSlots}
        \cup {W([f EXCEPT !.hdr.trunkC = @ + delta], "hdrTrunkC", <<"", 0>>, "") :
                delta \in {-1, 1}}
        \cup {W([f EXCEPT !.hdr.inputC = @ + 1], "hdrInputC", <<"", 0>>, "")}

Files == UNION {Variants(f) : f \in ValidFiles}

\* The departures the format rules of the loader reject.
MalformedKinds ==
    {"truncated", "trailing", "magic", "version", "wdlOutputs", "negLen", "lenMismatch",
     "kernel", "policyC", "valueC", "seChannels", "mapEntries"}


\* ---------------------------------------------------------------------------
\* Device heap: sycl_alloc / sycl_free
\* ---------------------------------------------------------------------------

\* size[p]: element count of allocation p (ids are never reused); live: the ids
\* not yet freed; frees: successful frees; bad: a free of a pointer that is not
\* live (double or invalid free).
EmptyHeap == [size |-> <<>>, live |-> {}, frees |-> 0, bad |-> FALSE]

\* sycl_alloc: nullptr when the runtime cannot satisfy the request (`inject`
\* stands for a failure of the runtime itself), else a fresh pointer.
SyclAlloc(h, count, inject) ==
    IF inject \/ count > MaxDeviceAlloc
    THEN [p |-> 0, h |-> h]
    ELSE [p |-> Len(h.size) + 1,
          h |-> [h EXCEPT !.size = Append(@, count), !.live = @ \cup {Len(h.size) + 1}]]

SyclFree(h, p) ==
    IF p = 0 THEN h
    ELSE IF p \in h.live THEN [h EXCEPT !.live = @ \ {p}, !.frees = @ + 1]
    ELSE [h EXCEPT !.bad = TRUE]

RECURSIVE FreeSeq(_, _)
FreeSeq(h, ps) == IF ps = <<>> THEN h ELSE FreeSeq(SyclFree(h, Head(ps)), Tail(ps))

\* ---------------------------------------------------------------------------
\* The structs
\* ---------------------------------------------------------------------------

DefaultConv == [inC |-> 0, outC |-> 0, k |-> 0, d_w |-> 0, d_b |-> 0, params |-> 0]
DefaultDense == [inD |-> 0, outD |-> 0, d_w |-> 0, d_b |-> 0, params |-> 0]
DefaultSe == [channels |-> 0, hidden |-> 0, d_w1 |-> 0, d_b1 |-> 0, d_w2 |-> 0, d_b2 |-> 0,
              params |-> 0]
DefaultBlock == [conv1 |-> DefaultConv, conv2 |-> DefaultConv, hasSe |-> FALSE, se |-> DefaultSe]

WorkspaceFields ==
    <<"d_in", "d_cur", "d_next", "d_tmp", "d_scratch", "d_policyHidden", "d_policyPlanes",
      "d_valueInput", "d_fc1", "d_logits", "d_sePooled", "d_seHidden", "d_seGates",
      "d_policyMapped">>

DefaultNet ==
    [inputC |-> 0, trunkC |-> 0, blocks |-> 0, policyC |-> 0, valueC |-> 0, valueHidden |-> 0,
     policySize |-> 0, paramCount |-> 0,
     inputLayer |-> DefaultConv, tower |-> <<>>,
     policyStem |-> DefaultConv, policyOut |-> DefaultConv, valueConv |-> DefaultConv,
     valueFc1 |-> DefaultDense, valueFc2 |-> DefaultDense,
     d_policyMap |-> 0, policyMapLen |-> 0, d_policyMapped |-> 0,
     d_in |-> 0, d_cur |-> 0, d_next |-> 0, d_tmp |-> 0, d_scratch |-> 0,
     d_policyHidden |-> 0, d_policyPlanes |-> 0, d_valueInput |-> 0, d_fc1 |-> 0,
     d_logits |-> 0, d_sePooled |-> 0, d_seHidden |-> 0, d_seGates |-> 0, seMaxHidden |-> 0]

\* ---------------------------------------------------------------------------
\* Parsing helpers.  Results: ok, the struct as the call left it, the heap, the
\* stream position, and dev = the call failed at a device allocation or copy.
\* ---------------------------------------------------------------------------

\* read_float_array at position pos: one item for the count, one for the body.
ReadFloatArray(len, pos, avail) ==
    IF avail < pos + 1 \/ len < 0 \/ avail < pos + 2
    THEN [ok |-> FALSE, size |-> 0, pos |-> pos]
    ELSE [ok |-> TRUE, size |-> len, pos |-> pos + 2]

Loaded(ok, out, h, pos, dev) == [ok |-> ok, out |-> out, h |-> h, pos |-> pos, dev |-> dev]

\* load_conv.  fp: the device step the runtime fails at (1 alloc w, 2 alloc b,
\* 3 copy w, 4 copy b; anything else: none).
LoadConv(out, rec, pos, avail, h, fp) ==
    IF avail < pos + 3 THEN Loaded(FALSE, out, h, pos, FALSE)
    ELSE IF rec.inC <= 0 \/ rec.outC <= 0 \/ (rec.k # 1 /\ rec.k # 3)
    THEN Loaded(FALSE, out, h, pos, FALSE)
    ELSE
      LET o1 == [out EXCEPT !.inC = rec.inC, !.outC = rec.outC, !.k = rec.k]
          w == ReadFloatArray(rec.wLen, pos + 3, avail)
          b == ReadFloatArray(rec.bLen, w.pos, avail)
      IN IF ~w.ok \/ ~b.ok THEN Loaded(FALSE, o1, h, pos, FALSE)
         ELSE IF w.size # rec.outC * rec.inC * rec.k * rec.k THEN Loaded(FALSE, o1, h, pos, FALSE)
         ELSE IF b.size # rec.outC THEN Loaded(FALSE, o1, h, pos, FALSE)
         ELSE
           LET o2 == [o1 EXCEPT !.params = w.size + b.size]
               a1 == SyclAlloc(h, w.size, fp = 1)
               o3 == [o2 EXCEPT !.d_w = a1.p]
               a2 == SyclAlloc(a1.h, b.size, fp = 2)
               o4 == [o3 EXCEPT !.d_b = a2.p]
           IN IF a1.p = 0 THEN Loaded(FALSE, o3, a1.h, pos, TRUE)
              ELSE IF a2.p = 0 THEN Loaded(FALSE, o4, a2.h, pos, TRUE)
              ELSE IF fp \in {3, 4} THEN Loaded(FALSE, o4, a2.h, pos, TRUE)
              ELSE Loaded(TRUE, o4, a2.h, b.pos, FALSE)

\* load_dense.  fp as for load_conv.
LoadDense(out, rec, expectedOut, pos, avail, h, fp) ==
    IF avail < pos + 2 THEN Loaded(FALSE, out, h, pos, FALSE)
    ELSE IF rec.inD <= 0 \/ rec.outD <= 0 \/ rec.outD # expectedOut
    THEN Loaded(FALSE, out, h, pos, FALSE)
    ELSE
      LET o1 == [out EXCEPT !.inD = rec.inD, !.outD = rec.outD]
          w == ReadFloatArray(rec.wLen, pos + 2, avail)
          b == ReadFloatArray(rec.bLen, w.pos, avail)
      IN IF ~w.ok \/ ~b.ok THEN Loaded(FALSE, o1, h, pos, FALSE)
         ELSE IF w.size # rec.outD * rec.inD THEN Loaded(FALSE, o1, h, pos, FALSE)
         ELSE IF b.size # rec.outD THEN Loaded(FALSE, o1, h, pos, FALSE)
         ELSE
           LET o2 == [o1 EXCEPT !.params = w.size + b.size]
               a1 == SyclAlloc(h, w.size, fp = 1)
               o3 == [o2 EXCEPT !.d_w = a1.p]
               a2 == SyclAlloc(a1.h, b.size, fp = 2)
               o4 == [o3 EXCEPT !.d_b = a2.p]
           IN IF a1.p = 0 THEN Loaded(FALSE, o3, a1.h, pos, TRUE)
              ELSE IF a2.p = 0 THEN Loaded(FALSE, o4, a2.h, pos, TRUE)
              ELSE IF fp \in {3, 4} THEN Loaded(FALSE, o4, a2.h, pos, TRUE)
              ELSE Loaded(TRUE, o4, a2.h, b.pos, FALSE)

LoadedSe(ok, out, present, mh, h, pos, dev) ==
    [ok |-> ok, out |-> out, present |-> present, maxHidden |-> mh, h |-> h, pos |-> pos,
     dev |-> dev]

\* load_se.  blk: the block's record in the file (flag byte and SE record).
\* fp: 1..4 the allocations of w1, b1, w2, b2; 5..8 their copies.
LoadSe(out, blk, channels, maxHidden, pos, avail, h, fp) ==
    IF avail < pos + 1 THEN LoadedSe(FALSE, out, FALSE, maxHidden, h, pos, FALSE)
    ELSE IF ~blk.se THEN LoadedSe(TRUE, out, FALSE, maxHidden, h, pos + 1, FALSE)
    ELSE IF avail < pos + 3 THEN LoadedSe(FALSE, out, TRUE, maxHidden, h, pos, FALSE)
    ELSE IF blk.seRec.channels # channels
    THEN LoadedSe(FALSE, out, TRUE, maxHidden, h, pos, FALSE)
    ELSE
      LET r == blk.seRec
          w1 == ReadFloatArray(r.w1Len, pos + 3, avail)
          b1 == ReadFloatArray(r.b1Len, w1.pos, avail)
          w2 == ReadFloatArray(r.w2Len, b1.pos, avail)
          b2 == ReadFloatArray(r.b2Len, w2.pos, avail)
      IN IF ~w1.ok \/ ~b1.ok \/ ~w2.ok \/ ~b2.ok
         THEN LoadedSe(FALSE, out, TRUE, maxHidden, h, pos, FALSE)
         ELSE
           LET o1 == [out EXCEPT !.channels = channels, !.hidden = r.hidden,
                                 !.params = w1.size + b1.size + w2.size + b2.size]
               mh == Max(maxHidden, r.hidden)
               a1 == SyclAlloc(h, w1.size, fp = 1)
               a2 == SyclAlloc(a1.h, b1.size, fp = 2)
               a3 == SyclAlloc(a2.h, w2.size, fp = 3)
               a4 == SyclAlloc(a3.h, b2.size, fp = 4)
               o2 == [o1 EXCEPT !.d_w1 = a1.p]
               o3 == [o2 EXCEPT !.d_b1 = a2.p]
               o4 == [o3 EXCEPT !.d_w2 = a3.p]
               o5 == [o4 EXCEPT !.d_b2 = a4.p]
           IN IF a1.p = 0 THEN LoadedSe(FALSE, o2, TRUE, mh, a1.h, pos, TRUE)
              ELSE IF a2.p = 0 THEN LoadedSe(FALSE, o3, TRUE, mh, a2.h, pos, TRUE)
              ELSE IF a3.p = 0 THEN LoadedSe(FALSE, o4, TRUE, mh, a3.h, pos, TRUE)
              ELSE IF a4.p = 0 THEN LoadedSe(FALSE, o5, TRUE, mh, a4.h, pos, TRUE)
              ELSE IF fp \in 5..8 THEN LoadedSe(FALSE, o5, TRUE, mh, a4.h, pos, TRUE)
              ELSE LoadedSe(TRUE, o5, TRUE, mh, a4.h, b2.pos, FALSE)

\* ---------------------------------------------------------------------------
\* destroy_net
\* ---------------------------------------------------------------------------

FreeConv(c) == <<c.d_w, c.d_b>>
FreeDense(d) == <<d.d_w, d.d_b>>
FreeSe(s) == <<s.d_w1, s.d_b1, s.d_w2, s.d_b2>>

\* A tower teardown that forgets the SE arrays of every block.
RECURSIVE FreeTowerSkipsSe(_)
FreeTowerSkipsSe(tower) ==
    IF tower = <<>> THEN <<>>
    ELSE LET b == Head(tower)
         IN FreeConv(b.conv1) \o FreeConv(b.conv2) \o FreeTowerSkipsSe(Tail(tower))

\* The pointers the tower loop of destroy_net hands to sycl_free, in order.
RECURSIVE FreeTower(_)
FreeTower(tower) ==
    IF tower = <<>> THEN <<>>
    ELSE LET b == Head(tower)
         IN FreeConv(b.conv1) \o FreeConv(b.conv2)
            \o (IF b.hasSe THEN FreeSe(b.se) ELSE <<>>) \o FreeTower(Tail(tower))

\* A workspace teardown that forgets the device copy of the policy map.
FreeWorkspaceKeepsMap(n) ==
    <<n.d_policyMapped, n.d_in, n.d_cur, n.d_next, n.d_tmp, n.d_scratch,
      n.d_policyHidden, n.d_policyPlanes, n.d_valueInput, n.d_fc1, n.d_logits,
      n.d_sePooled, n.d_seHidden, n.d_seGates>>

\* The workspace pointers destroy_net frees, in order.
FreeWorkspace(n) ==
    <<n.d_policyMap, n.d_policyMapped, n.d_in, n.d_cur, n.d_next, n.d_tmp, n.d_scratch,
      n.d_policyHidden, n.d_policyPlanes, n.d_valueInput, n.d_fc1, n.d_logits,
      n.d_sePooled, n.d_seHidden, n.d_seGates>>

\* destroy_net(n): the heap after it (the struct itself is deleted).
DestroyNet(n, h) ==
    FreeSeq(h, FreeConv(n.inputLayer) \o FreeTower(n.tower)
               \o FreeConv(n.policyStem) \o FreeConv(n.policyOut) \o FreeConv(n.valueConv)
               \o FreeDense(n.valueFc1) \o FreeDense(n.valueFc2) \o FreeWorkspace(n))


\* ---------------------------------------------------------------------------
\* Device memory of the workspace and the kernels' data flow
\* ---------------------------------------------------------------------------

\* What a value depends on.
In(x) == <<"in", x>>          \* the encoded input x of the running call
Stale == <<"stale", 0>>       \* workspace contents not written by the running call
Oob == <<"oob", 0>>           \* an access outside an allocation
Uninit == <<"uninit", 0>>     \* never written since the allocation
Caller == <<"caller", 0>>     \* what the caller's array held before the call

PlaneFields ==
    {"d_cur", "d_next", "d_tmp", "d_scratch", "d_policyHidden", "d_policyPlanes", "d_valueInput"}

\* Units the model tracks for a workspace buffer: 64-float planes for the
\* activation buffers, elements for the vectors; d_in is one unit, being
\* written and allocated as a whole (inputC*64 elements).
UnitsOf(fld, count) ==
    IF fld = "d_in" THEN 1
    ELSE IF fld \in PlaneFields THEN count \div Squares
    ELSE count

\* Device memory right after create_net: the uploaded policy map and the
\* workspace buffers, which no one has written.
InitMem(n, h, map) ==
    LET flds == {WorkspaceFields[k] : k \in 1..Len(WorkspaceFields)}
        fldOf(id) == CHOOSE fld \in flds : n[fld] = id
    IN [id \in {n[fld] : fld \in flds} \cup {n.d_policyMap} |->
          IF id = n.d_policyMap THEN map
          ELSE [u \in 1..UnitsOf(fldOf(id), h.size[id]) |-> {Uninit}]]

NoMem == <<>>

\* The state an evaluation threads through its kernels: memory, the units
\* written so far in this call, whether a kernel wrote out of bounds, device
\* operations issued, and whether a launch was given a range that is a
\* negative int converted to size_t.
StartEval(mem) == [mem |-> mem, wr |-> {}, oob |-> FALSE, ops |-> 0, huge |-> FALSE]

Min(a, b) == IF a <= b THEN a ELSE b

\* What unit u of buffer id holds for a kernel of the running call.
RdAt(ws, id, u) ==
    (IF u > Len(ws.mem[id]) THEN {Oob}
     ELSE IF <<id, u>> \in ws.wr THEN ws.mem[id][u] ELSE {Stale})
    \cup (IF ws.oob THEN {Oob} ELSE {})

\* What units 1..n of buffer id hold.
Rd(ws, id, n) == UNION {RdAt(ws, id, u) : u \in 1..n}

\* One kernel launch (or copy) writing toks to units 1..Len(toks) of buffer id.
Wr(ws, id, toks) ==
    LET len == Len(ws.mem[id])
    IN [ws EXCEPT !.mem[id] = [u \in 1..len |-> IF u <= Len(toks) THEN toks[u] ELSE @[u]],
                  !.wr = @ \cup {<<id, u>> : u \in 1..Min(Len(toks), len)},
                  !.oob = @ \/ Len(toks) > len,
                  !.ops = @ + 1]

\* launch_conv_no_bias (k_conv3x3_no_bias / k_conv1x1_no_bias): every output
\* plane sums over all inC input planes.
LaunchConvNoBias(ws, layer, input, out) ==
    LET t == Rd(ws, input, layer.inC)
    IN Wr(ws, out, [u \in 1..layer.outC |-> t])

\* k_add_bias_relu: in place, plane by plane.
KAddBiasRelu(ws, x, channels) == Wr(ws, x, [u \in 1..channels |-> RdAt(ws, x, u)])

\* k_add_bias.
KAddBias(ws, x, channels) == Wr(ws, x, [u \in 1..channels |-> RdAt(ws, x, u)])

\* k_add_residual_relu.
KAddResidualRelu(ws, convOut, residual, channels, dest) ==
    Wr(ws, dest, [u \in 1..channels |-> RdAt(ws, convOut, u) \cup RdAt(ws, residual, u)])

\* k_se_pool.
KSePool(ws, convOut, channels, pooled) ==
    IF channels <= 0 THEN ws
    ELSE Wr(ws, pooled, [u \in 1..channels |-> RdAt(ws, convOut, u)])

\* k_se_fc1: reads w1[h*channels + ch] and b1[h] for h < hidden.
KSeFc1(ws, h, pooled, se, channels, hidden, outHidden) ==
    IF hidden < 0 THEN [ws EXCEPT !.huge = TRUE]
    ELSE LET wOob == hidden * channels > h.size[se.d_w1] \/ hidden > h.size[se.d_b1]
             t == Rd(ws, pooled, channels) \cup (IF wOob THEN {Oob} ELSE {})
         IN Wr(ws, outHidden, [u \in 1..hidden |-> t])

\* k_se_fc2: reads w2[o*hidden + h] and b2[o] for o < outDim.
KSeFc2(ws, h, hiddenVec, se, hidden, outDim, gates) ==
    LET wOob == outDim * hidden > h.size[se.d_w2] \/ outDim > h.size[se.d_b2]
        t == Rd(ws, hiddenVec, hidden) \cup (IF wOob THEN {Oob} ELSE {})
    IN Wr(ws, gates, [u \in 1..outDim |-> t])

\* k_se_apply.
KSeApply(ws, convOut, residual, gates, channels, dest) ==
    Wr(ws, dest, [u \in 1..channels |->
                    RdAt(ws, convOut, u) \cup RdAt(ws, residual, u)
                    \cup RdAt(ws, gates, u) \cup RdAt(ws, gates, u + channels)])

\* k_policy_map: slot i takes planes[policyMap[i]] or the constant 0.0.
KPolicyMap(ws, planes, planesLen, policyMap, outLen, outPolicy) ==
    Wr(ws, outPolicy,
       [i \in 1..outLen |->
          IF i > Len(ws.mem[policyMap]) THEN {Oob}
          ELSE LET idx == ws.mem[policyMap][i]
               IN IF idx >= 0 /\ idx < planesLen
                  THEN RdAt(ws, planes, (idx \div Squares) + 1)
                  ELSE {}])

\* k_dense over the first n units of x.
KDense(ws, x, n, outD, y) ==
    LET t == Rd(ws, x, n)
    IN Wr(ws, y, [u \in 1..outD |-> t])

\* ---------------------------------------------------------------------------
\* eval_one
\* ---------------------------------------------------------------------------

\* The residual tower from block i on (net->tower[i] is tower[i + 1] here).
RECURSIVE EvalTower(_, _, _, _)

\* conv1 with bias and relu into d_tmp, then conv2 into d_scratch.
BlockConvs(n, ws, b) ==
    LaunchConvNoBias(
        KAddBiasRelu(LaunchConvNoBias(ws, b.conv1, n.d_cur, n.d_tmp), n.d_tmp, b.conv1.outC),
        b.conv2, n.d_tmp, n.d_scratch)

\* k_se_fc2 and k_se_apply; the launch of k_se_fc1 with a negative hidden
\* count has ended the call before them.
BlockSeApply(n, h, fc1, b) ==
    IF fc1.huge THEN fc1
    ELSE KSeApply(
             KSeFc2(fc1, h, n.d_seHidden, b.se, b.se.hidden, 2 * b.conv2.outC, n.d_seGates),
             n.d_scratch, n.d_cur, n.d_seGates, b.conv2.outC, n.d_next)

\* The block's output into d_next: plain residual, or through the SE unit.
BlockMerge(n, h, c2, b) ==
    IF ~b.hasSe
    THEN KAddResidualRelu(c2, n.d_scratch, n.d_cur, b.conv2.outC, n.d_next)
    ELSE BlockSeApply(n, h,
             KSeFc1(KSePool(c2, n.d_scratch, b.conv2.outC, n.d_sePooled),
                    h, n.d_sePooled, b.se, b.conv2.outC, b.se.hidden, n.d_seHidden),
             b)

\* An exchange that loses d_next: both fields name the block's output.
BlockSwapAliases(n, h, done, i) ==
    IF done.huge THEN [n |-> n, ws |-> done]
    ELSE EvalTower([n EXCEPT !.d_cur = n.d_next], h, done, i + 1)

\* std::swap(net->d_cur, net->d_next), then the next block.
BlockSwap(n, h, done, i) ==
    IF done.huge THEN [n |-> n, ws |-> done]
    ELSE EvalTower([n EXCEPT !.d_cur = n.d_next, !.d_next = n.d_cur], h, done, i + 1)

EvalTower(n, h, ws, i) ==
    IF ~(i < n.blocks) THEN [n |-> n, ws |-> ws]
    ELSE BlockSwap(n, h, BlockMerge(n, h, BlockConvs(n, ws, n.tower[i + 1]), n.tower[i + 1]), i)

\* What eval_one leaves: ok its return value; threw: an exception left it;
\* failed: the copy that failed; n, mem: the net and the device memory after it;
\* policyDone/policy: the policy download and what it put in outPolicyHost;
\* wdl: what it put in outWdlHost (outValue depends on the same); ops: device
\* operations issued; oob: a kernel wrote past the end of a workspace buffer.
Evaluated(ok, threw, failed, n, ws, policyDone, policy, wdl) ==
    [ok |-> ok, threw |-> threw, failed |-> failed, n |-> n, mem |-> ws.mem, ops |-> ws.ops,
     policyDone |-> policyDone, policy |-> policy, wdl |-> wdl, oob |-> ws.oob]

\* One blocking copy.
CopyOp(ws) == [ws EXCEPT !.ops = @ + 1]

\* The input layer into d_cur, after the upload of the encoded input to d_in.
EvalStem(n, up) ==
    KAddBiasRelu(
        Wr(up, n.d_cur,
           [u \in 1..n.inputLayer.outC |->
              RdAt(up, n.d_in, 1) \cup (IF n.inputLayer.inC > n.inputC THEN {Oob} ELSE {})]),
        n.d_cur, n.inputLayer.outC)

\* policyStem, policyOut and k_policy_map into d_policyMapped.
PolicyHead(m, ws) ==
    KPolicyMap(
        KAddBias(
            LaunchConvNoBias(
                KAddBiasRelu(
                    LaunchConvNoBias(ws, m.policyStem, m.d_cur, m.d_policyHidden),
                    m.d_policyHidden, m.policyStem.outC),
                m.policyOut, m.d_policyHidden, m.d_policyPlanes),
            m.d_policyPlanes, m.policyOut.outC),
        m.d_policyPlanes, m.policyOut.outC * Squares, m.d_policyMap, m.policySize,
        m.d_policyMapped)

\* What the policy download puts in outPolicyHost.
PolicyHost(m, pm) == [i \in 1..m.policySize |-> RdAt(pm, m.d_policyMapped, i)]

\* valueConv, fc1 and fc2 into d_logits.
ValueHead(m, pd) ==
    KDense(
        KDense(
            KAddBiasRelu(LaunchConvNoBias(pd, m.valueConv, m.d_cur, m.d_valueInput),
                         m.d_valueInput, m.valueConv.outC),
            m.d_valueInput, (m.valueFc1.inD + Squares - 1) \div Squares, m.valueFc1.outD,
            m.d_fc1),
        m.d_fc1, m.valueFc2.inD, m.valueFc2.outD, m.d_logits)

\* The logits download and the softmax over them.
EvalLogits(m, pm, ld, failAt) ==
    IF failAt = "logits"
    THEN Evaluated(FALSE, FALSE, "logits", m, ld, TRUE, PolicyHost(m, pm), {})
    ELSE Evaluated(TRUE, FALSE, "none", m, ld, TRUE, PolicyHost(m, pm),
                   Rd(ld, m.d_logits, WdlOutputs))

\* The policy download, then the value head.
EvalPolicy(m, pm, failAt) ==
    IF failAt = "policy"
    THEN Evaluated(FALSE, FALSE, "policy", m, CopyOp(pm), FALSE, <<>>, {})
    ELSE EvalLogits(m, pm, CopyOp(ValueHead(m, CopyOp(pm))), failAt)

\* The heads, on the net and workspace the tower left.
EvalHeads(tw, failAt) ==
    IF tw.ws.huge
    THEN Evaluated(FALSE, TRUE, "none", tw.n, tw.ws, FALSE, <<>>, {})
    ELSE EvalPolicy(tw.n, PolicyHead(tw.n, tw.ws), failAt)

\* eval_one(net, encoded input x).  failAt: the blocking copy the device fails.
EvalOne(n, h, mem, x, failAt) ==
    IF n.inputC # ClassicalInputC
    THEN Evaluated(FALSE, FALSE, "none", n, StartEval(mem), FALSE, <<>>, {})
    ELSE IF failAt = "upload"
    THEN Evaluated(FALSE, FALSE, "upload", n, CopyOp(StartEval(mem)), FALSE, <<>>, {})
    ELSE EvalHeads(
             EvalTower(n, h, EvalStem(n, Wr(StartEval(mem), n.d_in, <<{In(x)}>>)), 0),
             failAt)

\* ---------------------------------------------------------------------------
\* State
\* ---------------------------------------------------------------------------

VARIABLES
    pc,         \* where the host is: "idle", a stage of create_net, or what create
                \* ended with: "ready" (a handle), "null", "thrown" (an exception
                \* left create_net); "released" after destroy
    file,       \* the model file create_net was given
    rd,         \* items of the stream consumed so far
    net,        \* the SyclNet under construction / behind the handle
    heap,       \* the device heap
    bi,         \* create_net's loop index i over the tower
    maxHidden,  \* create_net's local maxHidden
    opened,     \* the model file has been opened
    devFailed,  \* a device allocation or copy failed during create_net
    mem,        \* contents of the workspace buffers and of the device policy map
    jpolicy,    \* the caller's policyOut array after the last nativePredict
    jwdl,       \* the caller's wdlOut array after the last nativePredict
    last,       \* the last nativePredict call: its arguments and what it returned
    device,     \* what the device selection at the head of create_net found
    info,       \* what the last nativeGetInfo returned
    absentOps,  \* the entry points called with a handle that is null or released
    uaf,        \* an entry point has dereferenced the handle of a deleted SyclNet
    fnIn,       \* arguments of a kernel or host computation taken on its own
    fnOut,      \* what it computed from them
    threads,    \* host threads inside nativePredict: handle, input, position, outputs
    nets        \* the loaded models those threads evaluate

\* The variables of a computation taken on its own.
sideVars == <<fnIn, fnOut, threads, nets>>
\* What the entry points other than create leave behind.
callVars == <<jpolicy, jwdl, last, info, absentOps, uaf, sideVars>>
hostVars == <<mem, callVars>>
progVars == <<pc, file, rd, net, heap, bi, maxHidden, opened, devFailed, mem, jpolicy, jwdl,
              last, device, info, absentOps, uaf>>
vars == <<progVars, sideVars>>

NoFile == ValidFile(1, 1, <<>>)

\* A caller's array of the given length, holding the caller's own data.
CallerArray(len) == [i \in 1..len |-> {Caller}]

NoCall ==
    [lens |-> "none", input |-> 0, polLen |-> 0, wdlLen |-> 0, ok |-> FALSE, ret |-> "none",
     failed |-> "none", threw |-> FALSE, ops |-> 0, value |-> {}, oob |-> FALSE]

\* nativeGetInfo not called yet.
NoInfo == [ret |-> "none", vals |-> <<>>]

\* The program before create is called.
IdleProgram ==
    /\ pc = "idle"
    /\ file = NoFile
    /\ rd = 0
    /\ net = DefaultNet
    /\ heap = EmptyHeap
    /\ bi = 0
    /\ maxHidden = 0
    /\ opened = FALSE
    /\ devFailed = FALSE
    /\ mem = NoMem
    /\ jpolicy = <<>>
    /\ jwdl = <<>>
    /\ last = NoCall
    /\ device = "unknown"
    /\ info = NoInfo
    /\ absentOps = <<>>
    /\ uaf = FALSE

\* No computation taken on its own.
NoFn == [fn |-> "none"]

\* No thread has been handed a model.
NoThreads == <<>>

Init ==
    /\ IdleProgram
    /\ fnIn = NoFn
    /\ fnOut = NoFn
    /\ threads = NoThreads
    /\ nets = NoThreads

\* ---------------------------------------------------------------------------
\* create_net, one action per record of the file
\* ---------------------------------------------------------------------------

\* `return nullptr` before the SyclNet owns anything.
ReturnNull ==
    /\ pc' = "null"
    /\ UNCHANGED <<rd, net, heap, bi, maxHidden, devFailed, device, hostVars>>

\* The `fail` lambda: destroy_net on the net as it stands, then nullptr.
Fail(n, h, dev) ==
    /\ pc' = "null"
    /\ heap' = DestroyNet(n, h)
    /\ net' = DefaultNet
    /\ devFailed' = (devFailed \/ dev)
    /\ UNCHANGED <<file, rd, bi, maxHidden, opened, device, hostVars>>

\* An exception leaves create_net: the unique_ptr deletes the struct, whose
\* destructor frees no device buffer.
Throw ==
    /\ pc' = "thrown"
    /\ UNCHANGED <<file, rd, net, heap, bi, maxHidden, opened, devFailed, device, hostVars>>

\* A stage succeeded: the net and heap it leaves, the next stage.
Proceed(n, h, pos, next) ==
    /\ pc' = next
    /\ net' = n
    /\ heap' = h
    /\ rd' = pos
    /\ UNCHANGED <<file, opened, devFailed, device, callVars>>

\* What the head of create_net can find: device_count() sees no Intel GPU
\* ("none"); select_intel_gpu, which lists the devices again, sees none
\* ("lost"); the sycl::queue constructor throws ("queueThrows"); or a device
\* and its in-order queue ("ok").
DeviceOutcomes == {"none", "lost", "queueThrows", "ok"}

\* A create_net that goes on to the file when the queue constructor threw.
CreateDeviceKeepsGoing ==
    /\ pc = "idle"
    /\ \E dev \in DeviceOutcomes :
         /\ device' = dev
         /\ pc' = (IF dev \in {"ok", "queueThrows"} THEN "open" ELSE "null")
    /\ UNCHANGED <<file, rd, net, heap, bi, maxHidden, opened, devFailed, hostVars>>

\* Device selection and queue creation.
CreateDevice ==
    /\ pc = "idle"
    /\ \E dev \in DeviceOutcomes :
         /\ device' = dev
         /\ pc' = (IF dev = "ok" THEN "open" ELSE "null")
    /\ UNCHANGED <<file, rd, net, heap, bi, maxHidden, opened, devFailed, hostVars>>

\* Opening the file, magic, version and the eight header fields.
CreateHeader ==
    /\ pc = "open"
    /\ opened' = TRUE
    /\ \E f \in Files, exists \in BOOLEAN :
         /\ file' = f
         /\ IF ~exists \/ f.avail < 1 \/ ~f.magicOk \/ f.avail < 2 \/ f.version # FormatVersion
               \/ f.avail < HeaderItems \/ f.hdr.wdlOutputs # WdlOutputs
            THEN ReturnNull
            ELSE /\ pc' = "inputLayer"
                 /\ rd' = HeaderItems
                 /\ net' = [DefaultNet EXCEPT
                              !.inputC = f.hdr.inputC, !.trunkC = f.hdr.trunkC,
                              !.blocks = f.hdr.blocks, !.policyC = f.hdr.policyC,
                              !.valueC = f.hdr.valueC, !.valueHidden = f.hdr.valueHidden,
                              !.policyMapLen = f.hdr.policyMapLen,
                              !.policySize = f.hdr.policyMapLen]
                 /\ UNCHANGED <<heap, bi, maxHidden, devFailed, device, hostVars>>

LoadInputLayer ==
    /\ pc = "inputLayer"
    /\ \E fp \in 0..4 :
         LET r == LoadConv(net.inputLayer, file.inputLayer, rd, file.avail, heap, fp)
             n == [net EXCEPT !.inputLayer = r.out]
         IN IF ~r.ok THEN Fail(n, r.h, r.dev)
            ELSE /\ Proceed([n EXCEPT !.paramCount = @ + r.out.params], r.h, r.pos, "resize")
                 /\ UNCHANGED <<bi, maxHidden, mem>>

\* net->tower.resize(static_cast<size_t>(blocks)); int maxHidden = 0; the loop
\* test (with no block to load, net->seMaxHidden = maxHidden follows at once).
TowerResize ==
    /\ pc = "resize"
    /\ IF ToSizeT(net.blocks) > VectorMaxSize
       THEN Throw
       ELSE /\ Proceed([net EXCEPT !.tower = [i \in 1..ToSizeT(net.blocks) |-> DefaultBlock],
                                   !.seMaxHidden = IF 0 < net.blocks THEN @ ELSE 0],
                       heap, rd, IF 0 < net.blocks THEN "conv1" ELSE "policyStem")
            /\ bi' = 0
            /\ maxHidden' = 0
            /\ mem' = mem

LoadConv1 ==
    /\ pc = "conv1"
    /\ \E fp \in 0..4 :
         LET r == LoadConv(net.tower[bi + 1].conv1, file.tower[bi + 1].conv1, rd, file.avail,
                           heap, fp)
             n == [net EXCEPT !.tower[bi + 1].conv1 = r.out]
         IN IF ~r.ok THEN Fail(n, r.h, r.dev)
            ELSE Proceed(n, r.h, r.pos, "conv2") /\ UNCHANGED <<bi, maxHidden, mem>>

LoadConv2 ==
    /\ pc = "conv2"
    /\ \E fp \in 0..4 :
         LET r == LoadConv(net.tower[bi + 1].conv2, file.tower[bi + 1].conv2, rd, file.avail,
                           heap, fp)
             n == [net EXCEPT !.tower[bi + 1].conv2 = r.out]
         IN IF ~r.ok THEN Fail(n, r.h, r.dev)
            ELSE /\ Proceed([n EXCEPT !.paramCount =
                                 @ + n.tower[bi + 1].conv1.params + r.out.params],
                            r.h, r.pos, "se")
                 /\ UNCHANGED <<bi, maxHidden, mem>>

\* load_se, b.hasSe = present, the parameter count, and the loop's i++ and test
\* (net->seMaxHidden = maxHidden once the loop ends).
LoadSeUnit ==
    /\ pc = "se"
    /\ \E fp \in 0..8 :
         LET b == net.tower[bi + 1]
             r == LoadSe(b.se, file.tower[bi + 1], b.conv2.outC, maxHidden, rd, file.avail,
                         heap, fp)
             n0 == [net EXCEPT !.tower[bi + 1].se = r.out]
             n1 == [n0 EXCEPT !.tower[bi + 1].hasSe = r.present,
                              !.paramCount = IF r.present THEN @ + r.out.params ELSE @]
             atEnd == ~(bi + 1 < net.blocks)
         IN IF ~r.ok THEN Fail(n0, r.h, r.dev)
            ELSE /\ Proceed(IF atEnd THEN [n1 EXCEPT !.seMaxHidden = r.maxHidden] ELSE n1,
                            r.h, r.pos, IF atEnd THEN "policyStem" ELSE "conv1")
                 /\ bi' = bi + 1
                 /\ maxHidden' = r.maxHidden
                 /\ mem' = mem

LoadPolicyStem ==
    /\ pc = "policyStem"
    /\ \E fp \in 0..4 :
         LET r == LoadConv(net.policyStem, file.policyStem, rd, file.avail, heap, fp)
             n == [net EXCEPT !.policyStem = r.out]
         IN IF ~r.ok THEN Fail(n, r.h, r.dev)
            ELSE Proceed(n, r.h, r.pos, "policyOut") /\ UNCHANGED <<bi, maxHidden, mem>>

LoadPolicyOut ==
    /\ pc = "policyOut"
    /\ \E fp \in 0..4 :
         LET r == LoadConv(net.policyOut, file.policyOut, rd, file.avail, heap, fp)
             n == [net EXCEPT !.policyOut = r.out]
         IN IF ~r.ok THEN Fail(n, r.h, r.dev)
            ELSE Proceed(n, r.h, r.pos, "valueConv") /\ UNCHANGED <<bi, maxHidden, mem>>

\* The value conv, then the checks of the two heads against the header.
LoadValueConv ==
    /\ pc = "valueConv"
    /\ \E fp \in 0..4 :
         LET r == LoadConv(net.valueConv, file.valueConv, rd, file.avail, heap, fp)
             n == [net EXCEPT !.valueConv = r.out]
         IN IF ~r.ok THEN Fail(n, r.h, r.dev)
            ELSE IF n.policyOut.outC # n.policyC \/ n.valueConv.outC # n.valueC
            THEN Fail(n, r.h, FALSE)
            ELSE /\ Proceed([n EXCEPT !.paramCount = @ + n.policyStem.params
                                          + n.policyOut.params + n.valueConv.params],
                            r.h, r.pos, "valueFc1")
                 /\ UNCHANGED <<bi, maxHidden, mem>>

LoadValueFc1 ==
    /\ pc = "valueFc1"
    /\ \E fp \in 0..4 :
         LET r == LoadDense(net.valueFc1, file.valueFc1, net.valueHidden, rd, file.avail,
                            heap, fp)
             n == [net EXCEPT !.valueFc1 = r.out]
         IN IF ~r.ok THEN Fail(n, r.h, r.dev)
            ELSE Proceed(n, r.h, r.pos, "valueFc2") /\ UNCHANGED <<bi, maxHidden, mem>>

LoadValueFc2 ==
    /\ pc = "valueFc2"
    /\ \E fp \in 0..4 :
         LET r == LoadDense(net.valueFc2, file.valueFc2, WdlOutputs, rd, file.avail, heap, fp)
             n == [net EXCEPT !.valueFc2 = r.out]
         IN IF ~r.ok THEN Fail(n, r.h, r.dev)
            ELSE /\ Proceed([n EXCEPT !.paramCount = @ + n.valueFc1.params + r.out.params],
                            r.h, r.pos, "policyMap")
                 /\ UNCHANGED <<bi, maxHidden, mem>>

\* mapEntries, the host vector, its bytes, the device copy of the map.
\* fp: 1 the allocation fails, 2 the copy.
LoadPolicyMap ==
    /\ pc = "policyMap"
    /\ \E fp \in 0..2 :
         IF file.avail < rd + 1 \/ file.mapEntries # net.policyMapLen
         THEN Fail(net, heap, FALSE)
         ELSE IF ToSizeT(file.mapEntries) > VectorMaxSize
         THEN Throw
         ELSE IF file.avail < rd + 2
         THEN Fail(net, heap, FALSE)
         ELSE LET a == SyclAlloc(heap, ToSizeT(file.mapEntries), fp = 1)
                  n == [net EXCEPT !.d_policyMap = a.p]
              IN IF a.p = 0 \/ fp = 2 THEN Fail(n, a.h, TRUE)
                 ELSE Proceed(n, a.h, rd + 2, "eof") /\ UNCHANGED <<bi, maxHidden, mem>>

\* f.peek(); if (!f.eof()) return fail();
EnsureEof ==
    /\ pc = "eof"
    /\ IF file.avail > rd
       THEN Fail(net, heap, FALSE)
       ELSE Proceed(net, heap, rd, "workspace") /\ UNCHANGED <<bi, maxHidden, mem>>

\* The element counts of the workspace allocations, in the order of WorkspaceFields.
WorkspaceCounts(n) ==
    LET planes(c) == (ToSizeT(c) * Squares) % SizeTModulus
    IN <<planes(n.inputC), planes(n.trunkC), planes(n.trunkC), planes(n.trunkC),
         planes(n.trunkC), planes(n.trunkC), planes(n.policyC), planes(n.valueC),
         ToSizeT(n.valueHidden), WdlOutputs, ToSizeT(n.trunkC),
         IF n.seMaxHidden > 0 THEN ToSizeT(n.seMaxHidden) ELSE 1,
         ToSizeT(2 * n.trunkC), ToSizeT(n.policySize)>>

\* The workspace allocations from the k-th on; fp: the one the runtime fails at.
RECURSIVE AllocWorkspaceFrom(_, _, _, _)
AllocWorkspaceFrom(n, h, k, fp) ==
    IF k > Len(WorkspaceFields) THEN [ok |-> TRUE, n |-> n, h |-> h]
    ELSE LET a == SyclAlloc(h, WorkspaceCounts(n)[k], fp = k)
             n1 == [n EXCEPT ![WorkspaceFields[k]] = a.p]
         IN IF a.p = 0 THEN [ok |-> FALSE, n |-> n1, h |-> a.h]
            ELSE AllocWorkspaceFrom(n1, a.h, k + 1, fp)

AllocWorkspace ==
    /\ pc = "workspace"
    /\ \E fp \in 0..Len(WorkspaceFields) :
         LET r == AllocWorkspaceFrom(net, heap, 1, fp)
         IN IF ~r.ok THEN Fail(r.n, r.h, TRUE)
            ELSE /\ Proceed(r.n, r.h, rd, "ready")
                 /\ mem' = InitMem(r.n, r.h, file.map)
                 /\ UNCHANGED <<bi, maxHidden>>

\* The SyclNet as destroy_net leaves it in the memory it deletes: the layer
\* pointers nulled by freeConv/freeDense/freeSe, the workspace pointers and the
\* metadata as they were.
RECURSIVE NulledTower(_)
NulledTower(tower) ==
    IF tower = <<>> THEN <<>>
    ELSE LET b == Head(tower)
             c1 == [b.conv1 EXCEPT !.d_w = 0, !.d_b = 0]
             c2 == [b.conv2 EXCEPT !.d_w = 0, !.d_b = 0]
             se == IF b.hasSe
                   THEN [b.se EXCEPT !.d_w1 = 0, !.d_b1 = 0, !.d_w2 = 0, !.d_b2 = 0]
                   ELSE b.se
         IN <<[b EXCEPT !.conv1 = c1, !.conv2 = c2, !.se = se]>> \o NulledTower(Tail(tower))

NulledNet(n) ==
    [n EXCEPT !.inputLayer.d_w = 0, !.inputLayer.d_b = 0,
              !.tower = NulledTower(n.tower),
              !.policyStem.d_w = 0, !.policyStem.d_b = 0,
              !.policyOut.d_w = 0, !.policyOut.d_b = 0,
              !.valueConv.d_w = 0, !.valueConv.d_b = 0,
              !.valueFc1.d_w = 0, !.valueFc1.d_b = 0,
              !.valueFc2.d_w = 0, !.valueFc2.d_b = 0]

\* What a call on a released handle can do: the handle still holds the address
\* of the deleted SyclNet, which the entry point dereferences.  Either the
\* memory still holds what destroy_net left ("stale") or the process dies.
DanglingOutcomes == {"stale", "crash"}

\* nativeDestroy(handle): handle 0 after create returned null, the live
\* handle, or the same handle value again after a destroy.
NativeDestroy ==
    /\ pc \in {"null", "ready", "released"}
    /\ pc # "ready" => Len(absentOps) < MaxAbsentCalls
    /\ \/ /\ pc = "null"
          /\ absentOps' = Append(absentOps, "destroy")
          /\ UNCHANGED <<pc, net, heap, mem, uaf>>
       \/ /\ pc = "ready"
          /\ pc' = "released"
          /\ heap' = DestroyNet(net, heap)
          /\ net' = NulledNet(net)
          /\ mem' = NoMem
          /\ UNCHANGED <<absentOps, uaf>>
       \/ /\ pc = "released"
          /\ absentOps' = Append(absentOps, "destroy")
          /\ uaf' = TRUE
          /\ \E out \in DanglingOutcomes :
               IF out = "crash"
               THEN pc' = "crashed" /\ UNCHANGED <<net, heap, mem>>
               ELSE /\ heap' = DestroyNet(net, heap)
                    /\ UNCHANGED <<pc, net, mem>>
    /\ UNCHANGED <<file, rd, bi, maxHidden, opened, devFailed, device, jpolicy, jwdl, last,
                   info, sideVars>>

\* nativeGetInfo reporting valueHidden where valueC belongs.
InfoValsValueHidden(n) ==
    <<n.inputC, n.trunkC, n.blocks, n.policyC, n.valueHidden, n.policySize, n.paramCount>>

\* The seven values of nativeGetInfo.
InfoVals(n) ==
    <<n.inputC, n.trunkC, n.blocks, n.policyC, n.valueC, n.policySize, n.paramCount>>

\* nativeGetInfo(handle).  arr: NewLongArray gave an array.
NativeGetInfo ==
    /\ pc \in {"null", "ready", "released"}
    /\ pc # "ready" => Len(absentOps) < MaxAbsentCalls
    /\ \/ /\ pc = "null"
          /\ info' = [ret |-> "null", vals |-> <<>>]
          /\ absentOps' = Append(absentOps, "getInfo")
          /\ UNCHANGED <<pc, uaf>>
       \/ /\ pc = "ready"
          /\ \E arr \in BOOLEAN :
               info' = IF arr THEN [ret |-> "array", vals |-> InfoVals(net)]
                       ELSE [ret |-> "null", vals |-> <<>>]
          /\ UNCHANGED <<pc, absentOps, uaf>>
       \/ /\ pc = "released"
          /\ absentOps' = Append(absentOps, "getInfo")
          /\ uaf' = TRUE
          /\ \E out \in DanglingOutcomes :
               IF out = "crash"
               THEN pc' = "crashed" /\ info' = info
               ELSE pc' = pc /\ info' = [ret |-> "array", vals |-> InfoVals(net)]
    /\ UNCHANGED <<file, rd, net, heap, bi, maxHidden, opened, devFailed, device, mem,
                   jpolicy, jwdl, last, sideVars>>

\* A length check that forgets the policyOut array.
LengthsOkSkipsPolicy(n, encLen, polLen, wdlLen) ==
    /\ encLen = n.inputC * Squares
    /\ wdlLen = WdlOutputs

\* The three length checks of nativePredict.
LengthsOk(n, encLen, polLen, wdlLen) ==
    /\ encLen = n.inputC * Squares
    /\ polLen = n.policySize
    /\ wdlLen = WdlOutputs

\* A predict that lets eval_one download the policy straight into the
\* caller's array instead of a local vector.
HostPolicyInPlace(r, polLen) == IF r.policyDone THEN r.policy ELSE CallerArray(polLen)

\* The caller's policyOut after the call: eval_one fills a local vector, which
\* SetFloatArrayRegion copies out only when eval_one returned true.
HostPolicy(r, polLen) == IF r.ok THEN r.policy ELSE CallerArray(polLen)

\* The caller's wdlOut after the call.
HostWdl(r, wdlLen) == IF r.ok THEN [i \in 1..WdlOutputs |-> r.wdl] ELSE CallerArray(wdlLen)

\* The calls the model makes: arrays of the right lengths with each way the
\* device can fail a blocking copy, and each single wrong length.
CallShapes ==
    {<<"ok", f>> : f \in {"none", "upload", "policy", "logits"}}
    \cup {<<l, "none">> : l \in {"enc", "pol", "wdl"}}

\* nativePredict on the handle create returned, with arrays of the caller's
\* choosing (lens: which of the three has the wrong length, if any) and the
\* encoded input x.  failAt: the blocking copy the device fails, if reached.
NativePredict ==
    /\ pc = "ready"
    /\ UNCHANGED <<info, absentOps, uaf>>
    /\ \E x \in 1..NumInputs, shape \in CallShapes :
         LET lens == shape[1]
             failAt == shape[2]
             encLen == net.inputC * Squares + (IF lens = "enc" THEN 1 ELSE 0)
             polLen == net.policySize + (IF lens = "pol" THEN 1 ELSE 0)
             wdlLen == WdlOutputs + (IF lens = "wdl" THEN 1 ELSE 0)
             call == [NoCall EXCEPT !.lens = lens, !.input = x, !.polLen = polLen,
                                    !.wdlLen = wdlLen]
         IN IF ~LengthsOk(net, encLen, polLen, wdlLen)
            THEN /\ last' = [call EXCEPT !.ret = "0.0"]
                 /\ jpolicy' = CallerArray(polLen)
                 /\ jwdl' = CallerArray(wdlLen)
                 /\ UNCHANGED <<pc, net, mem>>
            ELSE \E r \in {EvalOne(net, heap, mem, x, failAt)} :
                    /\ pc' = (IF r.threw THEN "aborted" ELSE "ready")
                    /\ net' = r.n
                    /\ mem' = r.mem
                    /\ jpolicy' = HostPolicy(r, polLen)
                    /\ jwdl' = HostWdl(r, wdlLen)
                    /\ last' = [call EXCEPT !.ok = r.ok, !.failed = r.failed,
                                            !.threw = r.threw, !.ops = r.ops,
                                            !.ret = IF r.threw THEN "none"
                                                    ELSE IF r.ok THEN "w-l" ELSE "0.0",
                                            !.value = IF r.ok THEN r.wdl ELSE {},
                                            !.oob = r.oob]
    /\ UNCHANGED <<file, rd, heap, bi, maxHidden, opened, devFailed, device, sideVars>>

\* nativePredict(handle, ...) with handle 0, or with the handle of a deleted
\* SyclNet: the length checks and eval_one then run on whatever the freed
\* struct and the freed device buffers hold.
NativePredictAbsent ==
    /\ pc \in {"null", "released"}
    /\ Len(absentOps) < MaxAbsentCalls
    /\ absentOps' = Append(absentOps, "predict")
    /\ \/ /\ pc = "null"
          /\ last' = [NoCall EXCEPT !.lens = "ok", !.polLen = net.policySize,
                                    !.wdlLen = WdlOutputs, !.ret = "0.0"]
          /\ jpolicy' = CallerArray(net.policySize)
          /\ jwdl' = CallerArray(WdlOutputs)
          /\ UNCHANGED <<pc, uaf>>
       \/ /\ pc = "released"
          /\ uaf' = TRUE
          /\ \E x \in 1..NumInputs, out \in DanglingOutcomes, done \in BOOLEAN :
               LET polLen == net.policySize
                   call == [NoCall EXCEPT !.lens = "ok", !.input = x, !.polLen = polLen,
                                          !.wdlLen = WdlOutputs]
               IN IF out = "crash"
                  THEN pc' = "crashed" /\ UNCHANGED <<last, jpolicy, jwdl>>
                  ELSE /\ pc' = pc
                       /\ last' = [call EXCEPT !.ok = done,
                                               !.ret = IF done THEN "w-l" ELSE "0.0",
                                               !.value = IF done THEN {Oob} ELSE {}]
                       /\ jpolicy' = IF done THEN [i \in 1..polLen |-> {Oob}]
                                     ELSE CallerArray(polLen)
                       /\ jwdl' = IF done THEN [i \in 1..WdlOutputs |-> {Oob}]
                                  ELSE CallerArray(WdlOutputs)
    /\ UNCHANGED <<file, rd, net, heap, bi, maxHidden, opened, devFailed, device, mem, info,
                   sideVars>>

Next ==
    \/ CreateDevice
    \/ CreateHeader
    \/ LoadInputLayer
    \/ TowerResize
    \/ LoadConv1
    \/ LoadConv2
    \/ LoadSeUnit
    \/ LoadPolicyStem
    \/ LoadPolicyOut
    \/ LoadValueConv
    \/ LoadValueFc1
    \/ LoadValueFc2
    \/ LoadPolicyMap
    \/ EnsureEof
    \/ AllocWorkspace
    \/ NativeDestroy
    \/ NativeGetInfo
    \/ NativePredict
    \/ NativePredictAbsent

Spec == Init /\ [][Next]_vars


\* ---------------------------------------------------------------------------
\* Claims
\* ---------------------------------------------------------------------------

\* create_net has returned (or been left by an exception).
CreateReturned == pc \in {"ready", "null", "thrown", "released", "aborted"}

\* Every allocation made so far has been freed, each once.
NothingLive == heap.live = {} /\ ~heap.bad /\ heap.frees = Len(heap.size)

\* C1: for a file malformed in one of the ways the format rules reject
\* (truncated, wrong magic or version, wdlOutputs # 3, negative array length,
\* array length not matching a conv/dense shape, kernel size not 1 or 3,
\* head outC not matching the header, wrong SE channel count, mapEntries #
\* policyMapLen, trailing byte), create ends with null and, with the device
\* itself failing nothing, every device allocation of the call has been freed.
C1_MalformedFileReturnsNull ==
    (opened /\ CreateReturned /\ file.fault.kind \in MalformedKinds /\ ~devFailed)
        => (pc = "null" /\ NothingLive)

\* A file with a trailing byte after two SE blocks, the heads and the policy
\* map were uploaded: null, and all 29 buffers freed.
C1_Witness ==
    /\ pc = "null"
    /\ file.fault.kind = "trailing"
    /\ ~devFailed
    /\ Len(heap.size) >= 29
    /\ heap.frees = Len(heap.size)

\* C2: a device allocation or copy failing anywhere in create ends it with
\* null and with every buffer allocated earlier in the call freed exactly once.
C2_DeviceFailureRollsBack ==
    (CreateReturned /\ devFailed) => (pc = "null" /\ NothingLive)

\* C3: create followed by destroy frees every device buffer create allocated,
\* each exactly once (stated for every file create accepts, and for the state
\* the destroy leaves, before any later use of the dead handle).
C3_CreateDestroyFreesAll ==
    (pc = "released" /\ ~uaf) => (NothingLive /\ Len(heap.size) > 0)

\* A well-formed file with an SE block and a plain block, loaded and destroyed.
C3_Witness ==
    /\ pc = "released"
    /\ ~uaf
    /\ file.fault.kind = "none"
    /\ \E i, j \in 1..Len(file.tower) : file.tower[i].se /\ ~file.tower[j].se
    /\ heap.frees = Len(heap.size)
    /\ heap.frees >= 39

\* C4: a negative size read from the file (a header field, an SE hidden count,
\* an array length) makes create end with null, not with a handle or an exception.
C4_NegativeSizeReturnsNull ==
    (opened /\ CreateReturned /\ file.fault.kind \in {"negHeader", "seHiddenNeg", "negLen"})
        => pc = "null"

ConvShapeOk(c) ==
    /\ heap.size[c.d_w] = c.outC * c.inC * c.k * c.k
    /\ heap.size[c.d_b] = c.outC

DenseShapeOk(d) ==
    /\ heap.size[d.d_w] = d.outD * d.inD
    /\ heap.size[d.d_b] = d.outD

SeShapeOk(se) ==
    /\ heap.size[se.d_w1] = se.hidden * se.channels
    /\ heap.size[se.d_b1] = se.hidden
    /\ heap.size[se.d_w2] = 2 * se.channels * se.hidden
    /\ heap.size[se.d_b2] = 2 * se.channels

\* C5: in a Net create returned, every device weight and bias buffer holds
\* the element count its layer's dimensions imply (conv, dense and SE).
C5_WeightBuffersMatchShapes ==
    pc = "ready" =>
        /\ ConvShapeOk(net.inputLayer) /\ ConvShapeOk(net.policyStem)
        /\ ConvShapeOk(net.policyOut) /\ ConvShapeOk(net.valueConv)
        /\ DenseShapeOk(net.valueFc1) /\ DenseShapeOk(net.valueFc2)
        /\ \A i \in 1..Len(net.tower) :
              /\ ConvShapeOk(net.tower[i].conv1)
              /\ ConvShapeOk(net.tower[i].conv2)
              /\ net.tower[i].hasSe => SeShapeOk(net.tower[i].se)

\* C6: in a Net create returned, every channel count a stage consumes is the
\* output-channel count of the stage that feeds it.
C6_ChannelChain ==
    pc = "ready" =>
        /\ net.inputLayer.inC = net.inputC
        /\ net.inputLayer.outC = net.trunkC
        /\ \A i \in 1..Len(net.tower) :
              /\ net.tower[i].conv1.inC = net.trunkC
              /\ net.tower[i].conv1.outC = net.tower[i].conv2.inC
              /\ net.tower[i].conv2.outC = net.trunkC
              /\ net.tower[i].hasSe => net.tower[i].se.channels = net.tower[i].conv2.outC
        /\ net.policyStem.inC = net.trunkC
        /\ net.policyOut.inC = net.policyStem.outC
        /\ net.valueConv.inC = net.trunkC
        /\ net.valueFc1.inD = net.valueC * Squares
        /\ net.valueFc2.inD = net.valueHidden

\* C7: a predict call on a Ready model with an array of the wrong length
\* returns 0.0, issues no device operation, leaves the caller's arrays as they
\* were and leaves the model (net, device memory, heap) exactly as it was, so
\* that later calls cannot tell it happened.
C7_WrongLengthChangesNothing ==
    [][(pc = "ready" /\ pc' \in {"ready", "aborted"} /\ last'.lens \in {"enc", "pol", "wdl"})
         => /\ last'.ret = "0.0"
            /\ last'.ops = 0
            /\ jpolicy' = CallerArray(last'.polLen)
            /\ jwdl' = CallerArray(last'.wdlLen)
            /\ UNCHANGED <<pc, net, heap, mem>>]_vars

\* A wrong-length call made after a successful evaluation of input 1, whose
\* logits are still in the workspace.
C7_Witness ==
    /\ pc = "ready"
    /\ last.lens = "enc"
    /\ last.ret = "0.0"
    /\ mem[net.d_logits][1] = {In(1)}

\* C8: when one of the three blocking copies of an evaluation fails, predict
\* returns 0.0 and the caller's policyOut and wdlOut are not modified.
C8_CopyFailureLeavesOutputs ==
    last.failed # "none" =>
        /\ last.ret = "0.0"
        /\ jpolicy = CallerArray(last.polLen)
        /\ jwdl = CallerArray(last.wdlLen)

\* The policy of input 2 was computed and downloaded, then the logits
\* download failed: the caller's policyOut still holds the caller's data.
C8_Witness ==
    /\ pc = "ready"
    /\ last.failed = "logits"
    /\ last.input = 2
    /\ mem[net.d_policyMapped][1] = {In(2)}
    /\ jpolicy = CallerArray(last.polLen)

\* C9: on a Ready model, whatever inputC its header declared, a predict call
\* with arrays of the right lengths and no failing device copy succeeds: it
\* fills policyOut and wdlOut and returns win minus loss.
C9_ValidCallSucceeds ==
    (last.lens = "ok" /\ last.failed = "none")
        => /\ last.ok
           /\ last.ret = "w-l"
           /\ jpolicy # CallerArray(last.polLen)
           /\ jwdl # CallerArray(last.wdlLen)

\* C10: the outputs of a successful predict are a function of the encoded
\* input (and the weights) alone: no policy slot, WDL value or scalar depends
\* on workspace contents the call did not write itself or on memory outside
\* an allocation, so two successful calls with one input return the same.
C10_OutputsDependOnInputAlone ==
    last.ok =>
        /\ \A i \in DOMAIN jpolicy : jpolicy[i] \subseteq {In(last.input)}
        /\ \A i \in DOMAIN jwdl : jwdl[i] \subseteq {In(last.input)}
        /\ last.value \subseteq {In(last.input)}

\* C11: destroy is idempotent and invalidates the handle: whatever the host
\* calls after a destroy (destroy again with the same handle value, getInfo,
\* predict), no entry point reads the memory of the released model and no
\* device buffer is freed a second time.
C11_ReleasedIsTerminal ==
    pc \in {"released", "crashed"} => (~uaf /\ ~heap.bad)

\* ---------------------------------------------------------------------------
\* k_policy_map on its own, over values
\* ---------------------------------------------------------------------------

\* Entries of the policy map per model.
MaxMapLen == 2
\* Policy planes per model.
MaxPolicyC == 2

\* INT32_MIN and INT32_MAX.
Int32Max == 2147483647
Int32Min == -Int32Max - 1

\* What a read outside the plane buffer yields.
OutOfBuffer == -1

\* d_policyPlanes after the policy head: policyC * 64 floats, all of them
\* written, each told apart by its value.
PlaneValues(policyC) == [j \in 1..(policyC * Squares) |-> 100 + j]

\* The map entries tried: the sentinel, the ends of one and of two planes,
\* the extremes of int32.
MapEntries(policyC) ==
    {Int32Min, -1, 0, Squares - 1, Squares, policyC * Squares - 1, policyC * Squares,
     policyC * Squares + 1, Int32Max}

\* The test of k_policy_map with an inclusive upper end.
PlaneIndexOkInclusive(idx, planesLen) == idx >= 0 /\ idx <= planesLen

\* if (idx >= 0 && idx < planesLen)
PlaneIndexOk(idx, planesLen) == idx >= 0 /\ idx < planesLen

\* planes[idx]
ReadPlane(planes, idx) == IF idx + 1 \in DOMAIN planes THEN planes[idx + 1] ELSE OutOfBuffer

\* k_policy_map: outPolicy[i] for i < outLen.
KPolicyMapValues(planes, planesLen, policyMap, outLen) ==
    [i \in 1..outLen |->
        IF PlaneIndexOk(policyMap[i], planesLen) THEN ReadPlane(planes, policyMap[i]) ELSE 0]

\* The indices of planes the kernel reads.
KPolicyMapReads(planesLen, policyMap, outLen) ==
    {policyMap[i] : i \in {k \in 1..outLen : PlaneIndexOk(policyMap[k], planesLen)}}

PolicyMapInputs ==
    UNION {[fn : {"k_policy_map"}, policyC : {c}, map : [1..n -> MapEntries(c)]] :
             c \in 1..MaxPolicyC, n \in 1..MaxMapLen}

InitPolicyMap ==
    /\ IdleProgram
    /\ fnIn \in PolicyMapInputs
    /\ fnOut = NoFn
    /\ threads = NoThreads
    /\ nets = NoThreads

\* The launch of eval_one: planesLen is policyOut.outC * 64, and policyOut.outC
\* is policyC in a loaded net; outLen is policySize, the length of the map.
RunPolicyMap ==
    /\ fnOut = NoFn
    /\ fnOut' = [fn |-> "k_policy_map",
                 policy |-> KPolicyMapValues(PlaneValues(fnIn.policyC), fnIn.policyC * Squares,
                                             fnIn.map, Len(fnIn.map)),
                 reads |-> KPolicyMapReads(fnIn.policyC * Squares, fnIn.map, Len(fnIn.map))]
    /\ UNCHANGED <<progVars, fnIn, threads, nets>>

NextPolicyMap == RunPolicyMap

SpecPolicyMap == InitPolicyMap /\ [][NextPolicyMap]_vars

\* C12: for every output slot i of the policy remap, a map entry outside
\* [0, policyC*64) gives exactly 0.0, any other entry gives the plane value
\* at that index, and the kernel reads no index outside the plane buffer.
C12_PolicyRemap ==
    fnOut.fn = "k_policy_map" =>
        /\ DOMAIN fnOut.policy = DOMAIN fnIn.map
        /\ \A i \in DOMAIN fnIn.map :
              IF fnIn.map[i] \in 0..(fnIn.policyC * Squares - 1)
              THEN fnOut.policy[i] = PlaneValues(fnIn.policyC)[fnIn.map[i] + 1]
              ELSE fnOut.policy[i] = 0
        /\ fnOut.reads \subseteq 0..(fnIn.policyC * Squares - 1)

\* A map holding the sentinel -1 and the first index past the last plane next
\* to a valid index: both outside slots are 0.0.
C12_Witness ==
    /\ fnOut.fn = "k_policy_map"
    /\ fnIn.policyC = 2
    /\ fnIn.map = <<2 * Squares, Squares>>
    /\ fnOut.policy = <<0, 100 + Squares + 1>>

\* ---------------------------------------------------------------------------
\* nativeGetInfo against the file
\* ---------------------------------------------------------------------------

\* Elements of the weight and bias arrays of the tower's records in the file,
\* the four SE arrays only where the block's flag byte is set.
RECURSIVE TowerArrayElements(_)
TowerArrayElements(tower) ==
    IF tower = <<>> THEN 0
    ELSE LET b == Head(tower)
         IN b.conv1.wLen + b.conv1.bLen + b.conv2.wLen + b.conv2.bLen
            + (IF b.se THEN b.seRec.w1Len + b.seRec.b1Len + b.seRec.w2Len + b.seRec.b2Len
               ELSE 0)
            + TowerArrayElements(Tail(tower))

\* Elements of every weight and bias array create_net reads from the file.
FileArrayElements(f) ==
    f.inputLayer.wLen + f.inputLayer.bLen + TowerArrayElements(f.tower)
    + f.policyStem.wLen + f.policyStem.bLen + f.policyOut.wLen + f.policyOut.bLen
    + f.valueConv.wLen + f.valueConv.bLen
    + f.valueFc1.wLen + f.valueFc1.bLen + f.valueFc2.wLen + f.valueFc2.bLen

\* C13: on a loaded model getInfo returns [inputC, trunkC, blocks, policyC,
\* valueC, policySize, paramCount]: the first five are the header fields of
\* the file, policySize is policyMapLen and the number of map entries read,
\* blocks is the number of blocks loaded, policyC is policyOut.outC, valueC is
\* valueConv.outC, paramCount is the element count of every weight and bias
\* array read (SE arrays only for flagged blocks); the same holds in every
\* Ready state, before and after predict calls.
C13_InfoMatchesFile ==
    /\ info.ret = "array" =>
          /\ Len(info.vals) = 7
          /\ info.vals[1] = file.hdr.inputC
          /\ info.vals[2] = file.hdr.trunkC
          /\ info.vals[3] = file.hdr.blocks
          /\ info.vals[4] = file.hdr.policyC
          /\ info.vals[5] = file.hdr.valueC
          /\ info.vals[6] = file.hdr.policyMapLen
          /\ info.vals[6] = file.mapEntries
          /\ info.vals[6] = Len(file.map)
          /\ info.vals[7] = FileArrayElements(file)
          /\ info.vals = InfoVals(net)
    /\ pc = "ready" =>
          /\ InfoVals(net) = <<file.hdr.inputC, file.hdr.trunkC, file.hdr.blocks,
                               file.hdr.policyC, file.hdr.valueC, file.hdr.policyMapLen,
                               FileArrayElements(file)>>
          /\ net.blocks = Len(net.tower)
          /\ net.blocks = Len(file.tower)
          /\ \A i \in 1..Len(net.tower) :
                /\ net.tower[i].conv1.d_w # 0 /\ net.tower[i].conv2.d_w # 0
                /\ net.tower[i].hasSe = file.tower[i].se
          /\ net.policyC = net.policyOut.outC
          /\ net.valueC = net.valueConv.outC
          /\ net.policySize = net.policyMapLen

\* getInfo after a successful predict on a model of two blocks, the first
\* with an SE unit and the second without.
C13_Witness ==
    /\ pc = "ready"
    /\ info.ret = "array"
    /\ last.ok
    /\ Len(file.tower) = 2
    /\ file.tower[1].se /\ ~file.tower[2].se
    /\ info.vals[7] = FileArrayElements(file)

\* C14: at load the device is looked for before anything else and its outcome
\* is settled once: while it is not settled nothing has been opened, read or
\* allocated; when no compatible accelerator is found or the queue cannot be
\* created, create returns null with the file never opened or read and
\* nothing allocated; the file is opened only with a device selected and its
\* queue created.
C14_DeviceBeforeFile ==
    /\ [](/\ device = "unknown" => (pc = "idle" /\ ~opened /\ rd = 0 /\ heap = EmptyHeap)
          /\ device \in {"none", "lost", "queueThrows"} =>
                (pc = "null" /\ ~opened /\ rd = 0 /\ heap = EmptyHeap /\ net = DefaultNet)
          /\ opened => device = "ok")
    /\ [][device # "unknown" => device' = device]_vars

\* create returned null because the queue could not be created.
C14_Witness ==
    /\ pc = "null"
    /\ device = "queueThrows"
    /\ ~opened
    /\ heap = EmptyHeap

\* ---------------------------------------------------------------------------
\* What an evaluation may touch
\* ---------------------------------------------------------------------------

\* The SyclNet without its workspace pointers: the scalar metadata and every
\* layer with its weight, bias and SE pointers, and d_policyMap.
WeightFrame(n) ==
    [n EXCEPT !.d_in = 0, !.d_cur = 0, !.d_next = 0, !.d_tmp = 0, !.d_scratch = 0,
              !.d_policyHidden = 0, !.d_policyPlanes = 0, !.d_valueInput = 0, !.d_fc1 = 0,
              !.d_logits = 0, !.d_sePooled = 0, !.d_seHidden = 0, !.d_seGates = 0,
              !.d_policyMapped = 0]

\* The workspace buffers of a SyclNet.
WorkspaceSet(n) == {n[WorkspaceFields[k]] : k \in 1..Len(WorkspaceFields)}

\* C15: a call on a Ready handle that is not destroy, successful or failed,
\* allocates and frees nothing on the device, leaves the Net Ready with its
\* metadata, weight, bias, SE and policy-map pointers, the policy map's
\* contents and the set of workspace buffers as they were, and writes no
\* device memory outside the workspace buffers.
C15_EvaluateWritesWorkspaceOnly ==
    [][(pc = "ready" /\ pc' # "released") =>
          /\ heap' = heap
          /\ pc' = "ready"
          /\ WeightFrame(net') = WeightFrame(net)
          /\ WorkspaceSet(net') = WorkspaceSet(net)
          /\ mem'[net.d_policyMap] = mem[net.d_policyMap]
          /\ ~last'.oob]_vars

\* ---------------------------------------------------------------------------
\* Host threads inside nativePredict
\* ---------------------------------------------------------------------------

\* Two host threads and two loaded models.
Threads == {1, 2}
Instances == {1, 2}

\* The device buffers eval_one works on; bufA and bufB are the two trunk
\* buffers the fields d_cur and d_next point to.
EvalBuffers ==
    {"d_in", "bufA", "bufB", "d_tmp", "d_scratch", "d_policyHidden", "d_policyPlanes",
     "d_policyMapped", "d_valueInput", "d_fc1", "d_logits"}

\* A model right after create_net, of one plain residual block.  wide: the
\* file's inputLayer has more output channels than the header's trunkC, which
\* create_net accepts.
FreshNet(wide) ==
    [d_cur |-> "bufA", d_next |-> "bufB", wide |-> wide,
     mem |-> [b \in EvalBuffers |-> {Uninit}]]

\* The buffer a field of the SyclNet points to.
BufferOf(n, fld) == IF fld \in {"d_cur", "d_next"} THEN n[fld] ELSE fld

Kernel(reads, writes) == [op |-> "kernel", rd |-> reads, wr |-> writes]

\* The submissions of eval_one in program order, each with the fields it
\* reads and the field it writes.  A convolution and the in-place bias kernel
\* after it are one entry: the bias kernel reads and writes the same elements.
EvalSteps ==
    << [op |-> "upload", rd |-> {}, wr |-> "d_in"],
       Kernel({"d_in"}, "d_cur"),
       Kernel({"d_cur"}, "d_tmp"),
       Kernel({"d_tmp"}, "d_scratch"),
       Kernel({"d_scratch", "d_cur"}, "d_next"),
       [op |-> "swap", rd |-> {}, wr |-> ""],
       Kernel({"d_cur"}, "d_policyHidden"),
       Kernel({"d_policyHidden"}, "d_policyPlanes"),
       Kernel({"d_policyPlanes"}, "d_policyMapped"),
       [op |-> "policyToHost", rd |-> {"d_policyMapped"}, wr |-> ""],
       Kernel({"d_cur"}, "d_valueInput"),
       Kernel({"d_valueInput"}, "d_fc1"),
       Kernel({"d_fc1"}, "d_logits"),
       [op |-> "logitsToHost", rd |-> {"d_logits"}, wr |-> ""] >>

LastStep == Len(EvalSteps)

\* A thread before its call: the handle it holds (inst), its encoded input.
NewCall(inst, x) ==
    [inst |-> inst, x |-> x, at |-> 0, policy |-> {}, wdl |-> {}, overlapped |-> FALSE]

\* sycl_copy_to_device of the encoded input into d_in.
Upload(n, x) == [n EXCEPT !.mem["d_in"] = {In(x)}]

\* What a kernel computes from the fields it reads.
KernelValue(n, step) == UNION {n.mem[BufferOf(n, f)] : f \in step.rd}

\* One submission of eval_one on net n for call c: the net after it.
StepNet(n, c, step) ==
    CASE step.op = "upload" -> Upload(n, c.x)
      [] step.op = "kernel" -> [n EXCEPT !.mem[BufferOf(n, step.wr)] = KernelValue(n, step)]
      [] step.op = "swap" -> [n EXCEPT !.d_cur = n.d_next, !.d_next = n.d_cur]
      [] OTHER -> n

\* ... and the call after it.
StepCall(n, c, step) ==
    CASE step.op = "policyToHost" -> [c EXCEPT !.policy = KernelValue(n, step), !.at = @ + 1]
      [] step.op = "logitsToHost" -> [c EXCEPT !.wdl = KernelValue(n, step), !.at = @ + 1]
      [] OTHER -> [c EXCEPT !.at = @ + 1]

\* eval_one from step k on with no other thread running.
RECURSIVE RunAlone(_, _, _)
RunAlone(n, c, k) ==
    IF k > LastStep THEN c
    ELSE RunAlone(StepNet(n, c, EvalSteps[k]), StepCall(n, c, EvalSteps[k]), k + 1)

\* What a call returns when it runs alone on its model.
Alone(c) == RunAlone(FreshNet(FALSE), NewCall(c.inst, c.x), 1)

\* Where the elements a wide input layer writes past the end of d_cur can
\* land: in no buffer of these models, or in any of their buffers.
SpillTargets == {<<0, "">>} \cup (Instances \X EvalBuffers)

\* The models after thread t's submission: the step on its own model and,
\* for the input layer of a wide model, the write past d_cur.
NetsAfter(t, target) ==
    LET c == threads[t]
        step == EvalSteps[c.at + 1]
        n == nets[c.inst]
        stepped == [nets EXCEPT ![c.inst] = StepNet(n, c, step)]
    IN IF n.wide /\ step.wr = "d_cur" /\ target[1] # 0
       THEN [stepped EXCEPT ![target[1]].mem[target[2]] = KernelValue(n, step)]
       ELSE stepped

\* Thread u is inside eval_one on the model thread t uses.
InFlightWith(t, u) ==
    /\ u # t
    /\ threads[u].inst = threads[t].inst
    /\ threads[u].at \in 1..(LastStep - 1)

\* The handles the threads hold: thread 1 that of model 1, thread 2 the same
\* handle or that of model 2.
HandlesHeld == {inst \in [Threads -> Instances] : inst[1] = 1}

InitThreads ==
    /\ IdleProgram
    /\ fnIn = NoFn
    /\ fnOut = NoFn
    /\ \E inst \in HandlesHeld, x \in [Threads -> 1..NumInputs] :
         threads = [t \in Threads |-> NewCall(inst[t], x[t])]
    /\ \E wide \in [Instances -> BOOLEAN] :
         nets = [i \in Instances |-> FreshNet(wide[i])]

\* An eval_one that holds a per-model lock from its first submission to its
\* last: a thread waits while another is inside eval_one on the same model.
EvalStepLocked(t) ==
    /\ threads[t].at < LastStep
    /\ ~\E u \in Threads : InFlightWith(t, u)
    /\ \E target \in (IF nets[threads[t].inst].wide /\ EvalSteps[threads[t].at + 1].wr = "d_cur"
                      THEN SpillTargets ELSE {<<0, "">>}) :
         nets' = NetsAfter(t, target)
    /\ threads' =
         [u \in Threads |->
            IF u = t
            THEN [StepCall(nets[threads[t].inst], threads[t], EvalSteps[threads[t].at + 1])
                    EXCEPT !.overlapped = @ \/ \E v \in Threads : InFlightWith(t, v)]
            ELSE [threads[u] EXCEPT !.overlapped = @ \/ InFlightWith(t, u)]]
    /\ UNCHANGED <<progVars, fnIn, fnOut>>

\* Thread t makes the next submission of its eval_one.  Nothing makes it wait
\* for another thread: the code takes no lock.
EvalStep(t) ==
    /\ threads[t].at < LastStep
    /\ \E target \in (IF nets[threads[t].inst].wide /\ EvalSteps[threads[t].at + 1].wr = "d_cur"
                      THEN SpillTargets ELSE {<<0, "">>}) :
         nets' = NetsAfter(t, target)
    /\ threads' =
         [u \in Threads |->
            IF u = t
            THEN [StepCall(nets[threads[t].inst], threads[t], EvalSteps[threads[t].at + 1])
                    EXCEPT !.overlapped = @ \/ \E v \in Threads : InFlightWith(t, v)]
            ELSE [threads[u] EXCEPT !.overlapped = @ \/ InFlightWith(t, u)]]
    /\ UNCHANGED <<progVars, fnIn, fnOut>>

NextThreads == \E t \in Threads : EvalStep(t)

SpecThreads == InitThreads /\ [][NextThreads]_vars

\* Thread t's call has returned.
Returned(t) == threads[t].at = LastStep

\* Thread t's call returned what it returns when run alone.
AsAlone(t) ==
    /\ threads[t].policy = Alone(threads[t]).policy
    /\ threads[t].wdl = Alone(threads[t]).wdl

\* C16: two models from separate create calls share no buffer and no queue:
\* when two threads evaluate on different models, in any interleaving, each
\* call returns what it returns when run alone.
C16_InstancesIsolated ==
    \A t \in Threads :
        (Returned(t) /\ \A u \in Threads \ {t} : threads[u].inst # threads[t].inst)
            => AsAlone(t)

\* C17: one model has no lock: a thread inside or before eval_one can always
\* make its next submission, whatever another thread is doing on the same
\* handle, so two calls on one handle interleave on the shared workspace; on
\* a model loaded from a well-formed file a call returns outputs other than
\* those it returns alone only when it overlapped another call on its handle.
C17_NoLockOnHandle ==
    \A t \in Threads :
        /\ threads[t].at < LastStep => ENABLED EvalStep(t)
        /\ (Returned(t) /\ ~AsAlone(t) /\ \A i \in Instances : ~nets[i].wide)
              => threads[t].overlapped

\* Two threads on the same handle of a well-formed model with different
\* inputs: thread 1 has returned a WDL that depends on thread 2's input.
C17_Witness ==
    /\ threads[1].inst = threads[2].inst
    /\ ~nets[threads[1].inst].wide
    /\ threads[1].x = 1 /\ threads[2].x = 2
    /\ Returned(1)
    /\ threads[1].overlapped
    /\ In(2) \in threads[1].wdl
    /\ ~AsAlone(1)

\* ---------------------------------------------------------------------------
\* The host softmax of eval_one, in fixed point
\* ---------------------------------------------------------------------------

\* 1.0f in the fixed-point scale the softmax is computed in.
FixedOne == 1000

\* std::exp(-d) for d = 0, 1, 2, ... in that scale, rounded down; past the
\* end of the table the result underflows to 0.
ExpTable == <<1000, 367, 135, 49, 18, 6, 2>>

\* std::exp(x) for x <= 0.
ExpNonPos(x) == IF -x < Len(ExpTable) THEN ExpTable[1 - x] ELSE 0

\* The finite logits tried: close together, apart, and so far apart that
\* the exponential of the difference underflows.
LogitValues == {-100, -2, -1, 0, 1, 3, 100}

\* A test of the denominator that needs more than one nonzero term.
DenominatorAboveOne(s) == s > FixedOne

\* (s > 0.0f)
DenominatorOk(s) == s > 0

\* x / s, rounded down.
FixedDiv(x, s) == (x * FixedOne) \div s

\* Lines 580-592: m, e0..e2, s, then w, d, l, outWdlHost and outValue.
HostSoftmax(logits) ==
    LET m == Max(logits[1], Max(logits[2], logits[3]))
        e == [i \in 1..WdlOutputs |-> ExpNonPos(logits[i] - m)]
        s == e[1] + e[2] + e[3]
        wdl == [i \in 1..WdlOutputs |-> IF DenominatorOk(s) THEN FixedDiv(e[i], s) ELSE 0]
    IN [fn |-> "softmax", m |-> m, s |-> s, zero |-> ~DenominatorOk(s), wdl |-> wdl,
        value |-> wdl[1] - wdl[3]]

InitSoftmax ==
    /\ IdleProgram
    /\ fnIn \in [fn : {"softmax"}, logits : [1..WdlOutputs -> LogitValues]]
    /\ fnOut = NoFn
    /\ threads = NoThreads
    /\ nets = NoThreads

\* The host part of eval_one on the downloaded logits.
RunSoftmax ==
    /\ fnOut = NoFn
    /\ fnOut' = HostSoftmax(fnIn.logits)
    /\ UNCHANGED <<progVars, fnIn, threads, nets>>

NextSoftmax == RunSoftmax

SpecSoftmax == InitSoftmax /\ [][NextSoftmax]_vars

\* C18: on a successful predict the returned scalar is wdlOut[0] - wdlOut[2];
\* for finite logits the denominator is positive (the term of the largest
\* logit is exp(0) = 1), so the all-zero branch is not taken, and the three
\* values are the softmax of the logits shifted by their maximum: each in
\* [0, 1], ordered as the logits are, summing to 1 within the rounding of the
\* three divisions.
C18_SoftmaxWdl ==
    fnOut.fn = "softmax" =>
        LET l == fnIn.logits
            top == CHOOSE i \in 1..WdlOutputs : \A j \in 1..WdlOutputs : l[i] >= l[j]
            e == [i \in 1..WdlOutputs |-> ExpNonPos(l[i] - l[top])]
            sum == fnOut.wdl[1] + fnOut.wdl[2] + fnOut.wdl[3]
        IN /\ fnOut.value = fnOut.wdl[1] - fnOut.wdl[3]
           /\ fnOut.s >= FixedOne
           /\ ~fnOut.zero
           /\ \A i \in 1..WdlOutputs :
                 /\ fnOut.wdl[i] \in 0..FixedOne
                 /\ fnOut.wdl[i] = (e[i] * FixedOne) \div (e[1] + e[2] + e[3])
                 /\ \A j \in 1..WdlOutputs : l[i] >= l[j] => fnOut.wdl[i] >= fnOut.wdl[j]
           /\ sum <= FixedOne
           /\ sum > FixedOne - WdlOutputs

\* Logits so far apart that two exponentials underflow to 0: the
\* denominator is exactly 1 and the result is (0, 0, 1), value -1.
C18_Witness ==
    /\ fnOut.fn = "softmax"
    /\ fnIn.logits = <<-100, 0, 100>>
    /\ fnOut.s = FixedOne
    /\ fnOut.wdl = <<0, 0, FixedOne>>
    /\ fnOut.value = -FixedOne

\* ---------------------------------------------------------------------------
\* k_se_apply and k_add_residual_relu on one element, in fixed point
\* ---------------------------------------------------------------------------

\* relu
Relu(x) == IF x > 0 THEN x ELSE 0

\* sigmoid: 1.0f / (1.0f + exp(-x)); exp of a positive argument is the
\* reciprocal of the table's entry, infinite where that entry has underflowed.
Sigmoid(x) ==
    IF x >= 0 THEN (FixedOne * FixedOne) \div (FixedOne + ExpNonPos(-x))
    ELSE IF ExpNonPos(x) = 0 THEN 0
    ELSE (FixedOne * FixedOne) \div (FixedOne + (FixedOne * FixedOne) \div ExpNonPos(x))

\* Activations, biases and offsets tried: whole numbers in the fixed-point
\* scale, so that the product with the gate is exact.
ElementValues == {-2 * FixedOne, -FixedOne, 0, FixedOne, 2 * FixedOne}
BiasValues == {-FixedOne, 0, FixedOne}
\* Gate logits tried: saturated low, negative, zero, saturated high.
GateLogits == {-100, -1, 0, 100}

\* k_add_residual_relu: dest[idx].
KAddResidualReluValue(convOut, bias, residual) == Relu(convOut + bias + residual)

\* A k_se_apply that leaves the residual out.
KSeApplyNoResidual(convOut, bias, residual, gates, ch, channels) ==
    Relu((Sigmoid(gates[ch]) * (convOut + bias)) \div FixedOne + gates[ch + channels])

\* k_se_apply: dest[idx] for an element of channel ch (from 1) of `channels`.
KSeApplyValue(convOut, bias, residual, gates, ch, channels) ==
    LET gamma == Sigmoid(gates[ch])
        betaExtra == gates[ch + channels]
        z == convOut + bias
    IN Relu((gamma * z) \div FixedOne + residual + betaExtra)

InitSeApply ==
    /\ IdleProgram
    /\ fnIn \in [fn : {"block"}, convOut : ElementValues, bias : BiasValues,
                 residual : ElementValues, gate : GateLogits, offset : BiasValues]
    /\ fnOut = NoFn
    /\ threads = NoThreads
    /\ nets = NoThreads

\* Both ways eval_one ends a block, on the same conv2 output, conv2 bias and
\* residual input; d_seGates holds the gate logit and the offset of the one
\* channel.
RunSeApply ==
    /\ fnOut = NoFn
    /\ fnOut' = [fn |-> "block",
                 se |-> KSeApplyValue(fnIn.convOut, fnIn.bias, fnIn.residual,
                                      <<fnIn.gate, fnIn.offset>>, 1, 1),
                 plain |-> KAddResidualReluValue(fnIn.convOut, fnIn.bias, fnIn.residual)]
    /\ UNCHANGED <<progVars, fnIn, threads, nets>>

NextSeApply == RunSeApply

SpecSeApply == InitSeApply /\ [][NextSeApply]_vars

\* C19 as stated: with the gate logit 0 (gate sigmoid(0) = 0.5) and the
\* offset 0, k_se_apply and k_add_residual_relu agree on every element.
C19_SeEqualsPlainAtHalfGate ==
    (fnOut.fn = "block" /\ fnIn.gate = 0 /\ fnIn.offset = 0) => fnOut.se = fnOut.plain

\* C19 amended: the two kernels agree on every element when the gate is 1
\* (sigmoid saturated) and the offset 0; with the gate logit 0 and offset 0
\* k_se_apply gives relu(0.5 * (convOut + bias) + residual), which equals the
\* plain block's relu(convOut + bias + residual) exactly on the elements
\* where convOut + bias = 0 or where both sums are not positive.
C19_SeEqualsPlainAtUnitGate ==
    fnOut.fn = "block" =>
        LET z == fnIn.convOut + fnIn.bias
            r == fnIn.residual
        IN /\ (Sigmoid(fnIn.gate) = FixedOne /\ fnIn.offset = 0) => fnOut.se = fnOut.plain
           /\ (fnIn.gate = 0 /\ fnIn.offset = 0) =>
                 /\ Sigmoid(fnIn.gate) * 2 = FixedOne
                 /\ fnOut.se = Relu(z \div 2 + r)
                 /\ (fnOut.se = fnOut.plain) <=> (z = 0 \/ (z + r <= 0 /\ z \div 2 + r <= 0))

\* A saturated gate with offset 0 on an element with a positive sum: both
\* kernels give conv2 output + bias + residual.
C19_Witness ==
    /\ fnOut.fn = "block"
    /\ fnIn.gate = 100 /\ fnIn.offset = 0
    /\ fnIn.convOut = 2 * FixedOne /\ fnIn.bias = -FixedOne /\ fnIn.residual = FixedOne
    /\ fnOut.se = 2 * FixedOne
    /\ fnOut.plain = 2 * FixedOne

\* C20: with a null handle destroy does nothing, getInfo returns null and
\* predict returns 0.0 leaving the caller's output arrays as they were, none
\* of them touching the device; and getInfo yields its values only on a
\* handle that is Ready.
C20_AbsentHandle ==
    [][/\ (pc = "null" /\ absentOps' # absentOps) =>
             /\ pc' = pc /\ heap' = heap /\ net' = net /\ mem' = mem
             /\ info' # info => info'.ret = "null"
             /\ last' # last =>
                   /\ last'.ret = "0.0" /\ last'.ops = 0
                   /\ jpolicy' = CallerArray(last'.polLen)
                   /\ jwdl' = CallerArray(last'.wdlLen)
       /\ (info' # info /\ info'.ret = "array") => pc = "ready"]_vars

\* ---------------------------------------------------------------------------
\* The launches of one eval_one, in order, with what each reads and writes
\* ---------------------------------------------------------------------------

\* The workspace buffers; bufA and bufB are the two trunk buffers.
PipelineBuffers == EvalBuffers \cup {"d_sePooled", "d_seHidden", "d_seGates"}

\* One submission: what it is (name, block number or 0), the workspace fields
\* it reads its data from and the field it writes ("" for none).
Launch(name, i, reads, writes) == [what |-> <<name, i>>, rd |-> reads, wr |-> writes]

\* The submissions of block i (from 1), with or without an SE unit.
BlockLaunches(i, se) ==
    << Launch("conv1", i, {"d_cur"}, "d_tmp"),
       Launch("conv1Bias", i, {"d_tmp"}, "d_tmp"),
       Launch("conv2", i, {"d_tmp"}, "d_scratch") >>
    \o (IF ~se
        THEN << Launch("combine", i, {"d_scratch", "d_cur"}, "d_next") >>
        ELSE << Launch("pool", i, {"d_scratch"}, "d_sePooled"),
                Launch("fc1", i, {"d_sePooled"}, "d_seHidden"),
                Launch("fc2", i, {"d_seHidden"}, "d_seGates"),
                Launch("combine", i, {"d_scratch", "d_cur", "d_seGates"}, "d_next") >>)
    \o << Launch("swap", i, {}, "") >>

RECURSIVE TowerLaunches(_, _)
TowerLaunches(seFlags, i) ==
    IF i > Len(seFlags) THEN <<>>
    ELSE BlockLaunches(i, seFlags[i]) \o TowerLaunches(seFlags, i + 1)

\* eval_one from the upload to the download of the logits.
PipelineLaunches(seFlags) ==
    << Launch("upload", 0, {}, "d_in"),
       Launch("inputConv", 0, {"d_in"}, "d_cur"),
       Launch("inputBias", 0, {"d_cur"}, "d_cur") >>
    \o TowerLaunches(seFlags, 1)
    \o << Launch("policyStem", 0, {"d_cur"}, "d_policyHidden"),
          Launch("policyStemBias", 0, {"d_policyHidden"}, "d_policyHidden"),
          Launch("policyOut", 0, {"d_policyHidden"}, "d_policyPlanes"),
          Launch("policyOutBias", 0, {"d_policyPlanes"}, "d_policyPlanes"),
          Launch("policyMap", 0, {"d_policyPlanes"}, "d_policyMapped"),
          Launch("policyToHost", 0, {"d_policyMapped"}, ""),
          Launch("valueConv", 0, {"d_cur"}, "d_valueInput"),
          Launch("valueConvBias", 0, {"d_valueInput"}, "d_valueInput"),
          Launch("valueFc1", 0, {"d_valueInput"}, "d_fc1"),
          Launch("valueFc2", 0, {"d_fc1"}, "d_logits"),
          Launch("logitsToHost", 0, {"d_logits"}, "") >>

\* No submission has written the buffer in this call.
NoLaunch == <<"none", 0>>

\* eval_one about to start on a model whose blocks have the given SE flags:
\* at: submissions made; by: the submission that last wrote each buffer;
\* log: per submission, the buffers read, the submissions that produced what
\* it read, the buffer written and the buffer a write past the end landed in.
StartPipeline ==
    [fn |-> "eval_one", at |-> 0, d_cur |-> "bufA", d_next |-> "bufB",
     by |-> [b \in PipelineBuffers |-> NoLaunch], log |-> <<>>]

\* A block loop that forgets the swap.
SwapForgotten(st) == st

\* std::swap(net->d_cur, net->d_next)
SwapCurNext(st) == [st EXCEPT !.d_cur = st.d_next, !.d_next = st.d_cur]

\* The next submission l on state st; spill: the buffer the elements written
\* past the end of the destination land in ("" for none).
Submit(st, l, spill) ==
    LET rdBufs == {BufferOf(st, f) : f \in l.rd}
        wrBuf == IF l.wr = "" THEN "" ELSE BufferOf(st, l.wr)
        entry == [what |-> l.what, rdBufs |-> rdBufs, from |-> {st.by[b] : b \in rdBufs},
                  wr |-> wrBuf, spill |-> spill]
        logged == [st EXCEPT !.at = @ + 1, !.log = Append(@, entry)]
    IN IF l.what[1] = "swap" THEN SwapCurNext(logged)
       ELSE IF wrBuf = "" THEN logged
       ELSE [logged EXCEPT !.by[wrBuf] = l.what]

\* Where a write past the end of the destination can land: nowhere in the
\* workspace, or in any of its buffers.
PipelineSpills == {""} \cup PipelineBuffers

InitPipeline ==
    /\ IdleProgram
    /\ fnIn \in [fn : {"eval_one"}, se : SeFlagSeqs, wide : BOOLEAN]
    /\ fnOut = StartPipeline
    /\ threads = NoThreads
    /\ nets = NoThreads

\* The next submission of eval_one.  On a model whose input layer is wider
\* than trunkC the input convolution writes past the end of d_cur.
PipelineStep ==
    /\ fnOut.at < Len(PipelineLaunches(fnIn.se))
    /\ \E spill \in (IF fnIn.wide /\ PipelineLaunches(fnIn.se)[fnOut.at + 1].what[1] = "inputConv"
                     THEN PipelineSpills ELSE {""}) :
         fnOut' = Submit(fnOut, PipelineLaunches(fnIn.se)[fnOut.at + 1], spill)
    /\ UNCHANGED <<progVars, fnIn, threads, nets>>

NextPipeline == PipelineStep

SpecPipeline == InitPipeline /\ [][NextPipeline]_vars

\* The submission that wrote the running activation block i reads (i from 1;
\* i = blocks + 1 for the heads).
ActivationBefore(i) == IF i = 1 THEN <<"inputBias", 0>> ELSE <<"combine", i - 1>>

\* C21: in one evaluation, for any number of blocks, the input stem writes
\* the running activation A; in each block conv1 reads A, conv2 reads conv1's
\* biased output, the combine kernel (directly, or after pool -> fc1 -> fc2
\* when the block has an SE unit) reads conv2's output and A and writes the
\* other trunk buffer B, then A and B are swapped; the policy stem and the
\* value conv read what the last block's combine kernel wrote (the stem's
\* output with no block), and the policy download precedes the value head.
C21_PipelineDataFlow ==
    fnOut.fn = "eval_one" =>
        \A k \in 1..Len(fnOut.log) :
            LET e == fnOut.log[k]
                name == e.what[1]
                i == e.what[2]
                blocks == Len(fnIn.se)
            IN /\ name = "inputConv" => e.from = {<<"upload", 0>>}
               /\ name = "inputBias" => e.from = {<<"inputConv", 0>>}
               /\ name = "conv1" => e.from = {ActivationBefore(i)}
               /\ name = "conv1Bias" => e.from = {<<"conv1", i>>}
               /\ name = "conv2" => e.from = {<<"conv1Bias", i>>}
               /\ name = "pool" => (fnIn.se[i] /\ e.from = {<<"conv2", i>>})
               /\ name = "fc1" => e.from = {<<"pool", i>>}
               /\ name = "fc2" => e.from = {<<"fc1", i>>}
               /\ name = "combine" =>
                     /\ e.from = {<<"conv2", i>>, ActivationBefore(i)}
                                    \cup (IF fnIn.se[i] THEN {<<"fc2", i>>} ELSE {})
                     /\ e.wr \in {"bufA", "bufB"}
                     /\ e.wr \notin e.rdBufs
                     /\ k < Len(fnOut.log) =>
                           (fnOut.log[k + 1].what = <<"swap", i>>)
               /\ name \in {"policyStem", "valueConv"} =>
                     e.from = {ActivationBefore(blocks + 1)}
               /\ name = "valueConv" =>
                     \E j \in 1..(k - 1) : fnOut.log[j].what = <<"policyToHost", 0>>
               /\ name = "policyToHost" =>
                     \A j \in 1..(k - 1) :
                        fnOut.log[j].what[1] \notin {"valueConv", "valueFc1", "valueFc2"}

\* A finished evaluation of two blocks, the first with an SE unit: the value
\* conv has read what the second block's combine kernel wrote into bufA.
C21_Witness ==
    /\ fnOut.fn = "eval_one"
    /\ fnIn.se = <<TRUE, FALSE>>
    /\ fnOut.at = Len(PipelineLaunches(fnIn.se))
    /\ fnOut.d_cur = "bufA"
    /\ fnOut.by["bufA"] = <<"combine", 2>>
    /\ fnOut.by["bufB"] = <<"combine", 1>>
    /\ \E k \in 1..Len(fnOut.log) :
         /\ fnOut.log[k].what = <<"valueConv", 0>>
         /\ fnOut.log[k].from = {<<"combine", 2>>}
         /\ fnOut.log[k].rdBufs = {"bufA"}

\* C22: on a Net create returned, every kernel launch and copy of an
\* evaluation stays inside the element counts of the buffers it touches: no
\* launch writes past the end of a workspace buffer, and nothing an
\* evaluation returns was read from outside a workspace buffer or a weight
\* array.
C22_AccessesInBounds ==
    (pc = "ready" /\ last.ok) =>
        /\ ~last.oob
        /\ Oob \notin last.value
        /\ \A i \in DOMAIN jpolicy : Oob \notin jpolicy[i]

\* ---------------------------------------------------------------------------
\* k_se_pool: one work-group under every interleaving of its work-items
\* ---------------------------------------------------------------------------

\* log2 of the work-group size the reduction is checked with (the code's
\* groups have 64 work-items, six strides).
LogGroupSize == 3
GroupSize == 2 ^ LogGroupSize
WorkItems == 0..(GroupSize - 1)

\* The stride of reduction step k (from 1): stride starts at half the group
\* and is halved (stride >>= 1) after every step.
StrideOf(k) == 2 ^ (LogGroupSize - k)

\* The last stage of a work-item: the write of pooled[ch] after the loop.
FinalStage == LogGroupSize + 1

\* A work-group at the start of the kernel.  stage[t]: 0 the load into buf,
\* k the reduction step of StrideOf(k), FinalStage the write of pooled[ch],
\* beyond it the work-item has ended; waiting[t]: it has reached the barrier
\* that ends its stage; arrivals[t]: barriers reached; buf: the local
\* accessor; reads/writes: <<stage, work-item, slot>> accesses of buf.
StartPool ==
    [fn |-> "k_se_pool", stage |-> [t \in WorkItems |-> 0],
     waiting |-> [t \in WorkItems |-> FALSE], arrivals |-> [t \in WorkItems |-> 0],
     buf |-> [t \in WorkItems |-> 0], pooled |-> 0, wrote |-> FALSE,
     reads |-> {}, writes |-> {}]

\* A loop without its barrier.
BarrierMissing(g, k) == TRUE

\* item.barrier(local_space) number k: open once every work-item has reached
\* it (or passed it).
BarrierOpen(g, k) ==
    \A u \in WorkItems : g.stage[u] > k \/ (g.stage[u] = k /\ g.waiting[u])

\* The code of work-item t in its current stage, up to the next barrier.
PoolStage(g, t, convOut, bias) ==
    LET k == g.stage[t]
        arrive == [g EXCEPT !.waiting[t] = TRUE, !.arrivals[t] = @ + 1]
    IN IF k = 0
       THEN [arrive EXCEPT !.buf[t] = convOut[t + 1],
                           !.writes = @ \cup {<<k, t, t>>}]
       ELSE IF k < FinalStage
       THEN IF t < StrideOf(k)
            THEN [arrive EXCEPT !.buf[t] = g.buf[t] + g.buf[t + StrideOf(k)],
                                !.reads = @ \cup {<<k, t, t>>, <<k, t, t + StrideOf(k)>>},
                                !.writes = @ \cup {<<k, t, t>>}]
            ELSE arrive
       ELSE IF t = 0
       THEN [g EXCEPT !.stage[t] = FinalStage + 1, !.wrote = TRUE,
                      !.pooled = g.buf[0] \div GroupSize + bias,
                      !.reads = @ \cup {<<k, t, 0>>}]
       ELSE [g EXCEPT !.stage[t] = FinalStage + 1]

\* The conv outputs of one channel tried: multiples of the group size, so
\* that the mean is exact, each square with a bit of its own, or all equal.
PoolInputs ==
    {[t \in 1..GroupSize |-> GroupSize * 2 ^ (t - 1)], [t \in 1..GroupSize |-> GroupSize]}

RECURSIVE SumTo(_, _)
SumTo(v, n) == IF n = 0 THEN 0 ELSE v[n] + SumTo(v, n - 1)

InitPool ==
    /\ IdleProgram
    /\ fnIn \in [fn : {"k_se_pool"}, convOut : PoolInputs, bias : {-1, 0, 2}]
    /\ fnOut = StartPool
    /\ threads = NoThreads
    /\ nets = NoThreads

\* Work-item t runs its stage up to the barrier (or, in the last, to the end).
PoolRun(t) ==
    /\ fnOut.stage[t] <= FinalStage
    /\ ~fnOut.waiting[t]
    /\ fnOut' = PoolStage(fnOut, t, fnIn.convOut, fnIn.bias)
    /\ UNCHANGED <<progVars, fnIn, threads, nets>>

\* Work-item t leaves the barrier it waits at.
PoolPassBarrier(t) ==
    /\ fnOut.waiting[t]
    /\ BarrierOpen(fnOut, fnOut.stage[t])
    /\ fnOut' = [fnOut EXCEPT !.waiting[t] = FALSE, !.stage[t] = @ + 1]
    /\ UNCHANGED <<progVars, fnIn, threads, nets>>

NextPool == \E t \in WorkItems : PoolRun(t) \/ PoolPassBarrier(t)

\* The work-items of a work-group make progress: a work-item that can run is
\* run, all of a group being resident until the kernel ends.
SpecPool == InitPool /\ [][NextPool]_vars /\ WF_vars(NextPool)

\* Every work-item has ended.
PoolEnded == \A t \in WorkItems : fnOut.stage[t] = FinalStage + 1

\* C23: under every interleaving of the work-items of a group the
\* barrier-separated tree reduction leaves in pooled[ch] the sum of all the
\* channel's conv outputs divided by their number, plus bias[ch]; within a
\* reduction step no work-item reads a slot of buf that another work-item
\* writes in that step; and the kernel ends, every work-item having reached
\* every barrier.
C23_PoolReduction ==
    /\ [](fnOut.fn = "k_se_pool" =>
            /\ fnOut.wrote =>
                  fnOut.pooled = SumTo(fnIn.convOut, GroupSize) \div GroupSize + fnIn.bias
            /\ \A r \in fnOut.reads, w \in fnOut.writes :
                  (r[1] = w[1] /\ r[3] = w[3]) => r[2] = w[2]
            /\ \A t, u \in WorkItems :
                  fnOut.arrivals[t] - fnOut.arrivals[u] \in {-1, 0, 1}
            /\ PoolEnded => \A t \in WorkItems : fnOut.arrivals[t] = LogGroupSize + 1)
    /\ <>(fnOut.fn = "k_se_pool" /\ PoolEnded /\ fnOut.wrote)

\* The kernel has ended on a channel whose squares all differ: pooled[ch]
\* holds every square's bit, plus the bias.
C23_Witness ==
    /\ fnOut.fn = "k_se_pool"
    /\ PoolEnded
    /\ fnIn.bias = 2
    /\ fnIn.convOut[2] = 2 * GroupSize
    /\ fnOut.pooled = 2 ^ GroupSize - 1 + 2

\* ---------------------------------------------------------------------------
\* k_conv3x3_no_bias: the products one work-item accumulates
\* ---------------------------------------------------------------------------

\* Input and output channels the kernel is run with.
MaxConvC == 2
\* The board is 8 by 8; a 3x3 kernel has 9 weights.
BoardSide == 8
KernelTaps == 9

\* One product of the accumulation: input[inIdx] * w[wIdx].
Product(inIdx, wIdx) == <<inIdx, wIdx>>

\* An inner loop whose skip of a column leaves wIdx where it was.
RECURSIVE KernelRowStuck(_, _, _, _, _)
KernelRowStuck(inRowBase, wBase, wIdx, col, kx) ==
    IF kx > 1 THEN <<>>
    ELSE IF col + kx < 0 \/ col + kx >= BoardSide
    THEN KernelRowStuck(inRowBase, wBase, wIdx, col, kx + 1)
    ELSE <<Product(inRowBase + col + kx, wBase + wIdx)>>
         \o KernelRowStuck(inRowBase, wBase, wIdx + 1, col, kx + 1)

\* for (int kx = -1; kx <= 1; kx++, wIdx++): a column off the board is
\* skipped by `continue`, which still runs kx++, wIdx++.
RECURSIVE KernelRow(_, _, _, _, _)
KernelRow(inRowBase, wBase, wIdx, col, kx) ==
    IF kx > 1 THEN <<>>
    ELSE (IF col + kx < 0 \/ col + kx >= BoardSide THEN <<>>
          ELSE <<Product(inRowBase + col + kx, wBase + wIdx)>>)
         \o KernelRow(inRowBase, wBase, wIdx + 1, col, kx + 1)

\* for (int ky = -1; ky <= 1; ky++): a row off the board adds 3 to wIdx and
\* is skipped; the inner loop leaves wIdx 3 further as well.
RECURSIVE KernelRows(_, _, _, _, _, _)
KernelRows(inBase, wBase, wIdx, row, col, ky) ==
    IF ky > 1 THEN <<>>
    ELSE (IF row + ky < 0 \/ row + ky >= BoardSide THEN <<>>
          ELSE KernelRow(inBase + (row + ky) * BoardSide, wBase, wIdx, col, -1))
         \o KernelRows(inBase, wBase, wIdx + 3, row, col, ky + 1)

\* for (int ic = 0; ic < inC; ic++)
RECURSIVE ConvChannels(_, _, _, _, _)
ConvChannels(ic, inC, ocBase, row, col) ==
    IF ~(ic < inC) THEN <<>>
    ELSE KernelRows(ic * Squares, ocBase + ic * KernelTaps, 0, row, col, -1)
         \o ConvChannels(ic + 1, inC, ocBase, row, col)

\* The work-item idx of k_conv3x3_no_bias: the products it adds up, in
\* order, and the element of out it writes (none when oc >= outC).
Conv3x3Item(idx, inC, outC) ==
    LET oc == idx \div Squares
        s == idx % Squares
        row == s \div BoardSide
        col == s % BoardSide
    IN IF oc >= outC THEN [fn |-> "k_conv3x3", wrote |-> FALSE, out |-> 0, terms |-> <<>>]
       ELSE [fn |-> "k_conv3x3", wrote |-> TRUE, out |-> oc * Squares + s,
             terms |-> ConvChannels(0, inC, oc * inC * KernelTaps, row, col)]

InitConv ==
    /\ IdleProgram
    /\ \E inC \in 1..MaxConvC, outC \in 1..MaxConvC :
         fnIn \in [fn : {"k_conv3x3"}, inC : {inC}, outC : {outC},
                   idx : 0..(outC * Squares - 1)]
    /\ fnOut = NoFn
    /\ threads = NoThreads
    /\ nets = NoThreads

\* One work-item of the launch.
RunConv ==
    /\ fnOut = NoFn
    /\ fnOut' = Conv3x3Item(fnIn.idx, fnIn.inC, fnIn.outC)
    /\ UNCHANGED <<progVars, fnIn, threads, nets>>

NextConv == RunConv

SpecConv == InitConv /\ [][NextConv]_vars

\* C24: the 3x3 convolution's result for output channel oc and square
\* (row, col) is the sum over all input channels ic and all (ky, kx) in
\* {-1,0,1}^2 with row+ky and col+kx on the board of
\* input[ic][row+ky][col+kx] * w[oc][ic][ky+1][kx+1]: neighbours off the board
\* contribute nothing, no product wraps to the adjacent row or column, and
\* the weight index stays aligned with (ky, kx) when rows or columns are
\* skipped; every index is inside its array.
C24_Conv3x3Sum ==
    fnOut.fn = "k_conv3x3" =>
        LET oc == fnIn.idx \div Squares
            row == (fnIn.idx % Squares) \div BoardSide
            col == fnIn.idx % BoardSide
            expected ==
                {Product(ic * Squares + (row + ky) * BoardSide + (col + kx),
                         ((oc * fnIn.inC + ic) * 3 + (ky + 1)) * 3 + (kx + 1)) :
                    <<ic, ky, kx>> \in
                        {p \in (0..(fnIn.inC - 1)) \X {-1, 0, 1} \X {-1, 0, 1} :
                            /\ row + p[2] \in 0..(BoardSide - 1)
                            /\ col + p[3] \in 0..(BoardSide - 1)}}
        IN /\ fnOut.wrote
           /\ fnOut.out = fnIn.idx
           /\ {fnOut.terms[k] : k \in 1..Len(fnOut.terms)} = expected
           /\ Len(fnOut.terms) = Cardinality(expected)
           /\ \A k \in 1..Len(fnOut.terms) :
                 /\ fnOut.terms[k][1] \in 0..(fnIn.inC * Squares - 1)
                 /\ fnOut.terms[k][2] \in 0..(fnIn.outC * fnIn.inC * KernelTaps - 1)

\* The top-left corner of the second output channel over two input
\* channels: four products per input channel, the first with weight
\* w[1][0][1][1] (index 22) on input square 0.
C24_Witness ==
    /\ fnOut.fn = "k_conv3x3"
    /\ fnIn.inC = 2 /\ fnIn.outC = 2
    /\ fnIn.idx = Squares
    /\ Len(fnOut.terms) = 8
    /\ fnOut.terms[1] = Product(0, 22)
    /\ fnOut.terms[4] = Product(9, 26)

\* The launches that update a buffer in place.
InPlaceLaunches ==
    {"inputBias", "conv1Bias", "policyStemBias", "policyOutBias", "valueConvBias"}

\* The copies and the pointer exchange: no work-items.
NotKernels == {"upload", "policyToHost", "logitsToHost", "swap"}

\* k_add_bias_relu / k_add_bias: the elements of x work-item idx reads and
\* writes (x[idx] = x[idx] + b[ch]).
InPlaceTouches(idx) == [rd |-> {idx}, wr |-> {idx}]

\* C25: in every launch of an evaluation other than the SE pooling, no
\* work-item reads a buffer element another work-item of the same launch
\* writes: the destination of each conv, dense, SE-fc, SE-apply, residual-add
\* and policy-map launch is a buffer distinct from all its data inputs, also
\* after any number of swaps, nothing it writes lands in a buffer it reads,
\* and the in-place bias kernels touch only their own element.
C25_NoHazardInLaunch ==
    fnOut.fn = "eval_one" =>
        \A k \in 1..Len(fnOut.log) :
            LET e == fnOut.log[k]
                name == e.what[1]
            IN name \notin (NotKernels \cup {"pool"}) =>
                  IF name \in InPlaceLaunches
                  THEN /\ e.rdBufs = {e.wr}
                       /\ e.spill = ""
                       /\ \A a, b \in 0..(Squares - 1) :
                             a # b => InPlaceTouches(a).rd \cap InPlaceTouches(b).wr = {}
                  ELSE /\ e.wr # ""
                       /\ e.wr \notin e.rdBufs
                       /\ e.spill \notin e.rdBufs

\* ---------------------------------------------------------------------------
\* Ownership of the device buffers
\* ---------------------------------------------------------------------------

\* Every device pointer field of the SyclNet (the SE fields of the blocks
\* whose hasSe is set).
NetPointers(n) ==
    FreeConv(n.inputLayer) \o FreeTower(n.tower)
    \o FreeConv(n.policyStem) \o FreeConv(n.policyOut) \o FreeConv(n.valueConv)
    \o FreeDense(n.valueFc1) \o FreeDense(n.valueFc2) \o FreeWorkspace(n)

\* The buffers a sequence of pointers names.
PointerSet(ps) == {ps[k] : k \in 1..Len(ps)}

\* The handle create returned is still held: no destroy yet.
Held(p) == p \in {"ready", "aborted"}

\* The pointers ps name each buffer of heap h once and nothing else, and d,
\* the heap destroy_net leaves, has every allocation freed once.
OwnedOnce(ps, h, d) ==
    /\ Cardinality(PointerSet(ps)) = Len(ps)
    /\ PointerSet(ps) = h.live
    /\ h.live = 1..Len(h.size)
    /\ d.live = {}
    /\ ~d.bad
    /\ d.frees = Len(h.size)

\* C26: after a load and any number of evaluate calls, successful or aborted
\* at any copy, on a tower of odd or even length, the pointer fields of the
\* instance refer to pairwise distinct live device buffers and the set of
\* buffers referenced is exactly the set allocated at load (d_cur and d_next
\* may exchange roles but never alias, and no call changes the set), so a
\* subsequent destroy frees each buffer exactly once.
C26_OwnershipAcrossCalls ==
    /\ [](Held(pc) =>
            /\ OwnedOnce(NetPointers(net), heap, DestroyNet(net, heap))
            /\ net.d_cur # net.d_next)
    /\ [][(Held(pc) /\ Held(pc')) =>
            /\ {net'.d_cur, net'.d_next} = {net.d_cur, net.d_next}
            /\ [net' EXCEPT !.d_cur = 0, !.d_next = 0] = [net EXCEPT !.d_cur = 0, !.d_next = 0]
            /\ heap' = heap]_vars

\* A one-block model after a call whose policy download failed: d_cur and
\* d_next have exchanged roles (d_next was allocated right after d_cur).
C26_Witness ==
    /\ pc = "ready"
    /\ net.blocks = 1
    /\ last.failed = "policy"
    /\ net.d_cur = net.d_next + 1
    /\ Len(heap.size) > 0

====
